---- MODULE Spec2Model ----
(***************************************************************************)
(* A model of wick's concurrency core:                                     *)
(*   - getSessions, connect and getErrorFromErrorChannel of cmd/wick;      *)
(*   - the repeated-operation executor of core (Call / Publish);           *)
(*   - registerInvocationHandler of core.                                  *)
(* Each component is a small state machine of its own; a component that    *)
(* is not running stays in its "off" position.                             *)
(***************************************************************************)
EXTENDS Integers, Sequences, FiniteSets, TLC

\* ------------------------------------------------------------------ bounds
MaxCount == 3        \* largest sessionCount given to getSessions
MaxConcurrency == 2  \* largest concurrency given to getSessions
MaxRepeat == 3       \* largest repeat count given to the executor
MaxExConc == 2       \* largest concurrency given to the executor
MaxDelay == 1        \* largest delay given to the executor, in clock ticks
MaxTime == 2         \* the clock stops here
MaxQueue == 3        \* longest error queue handed to the aggregation alone
MaxErrs == 2         \* distinct errors in such a queue
MaxInvokeCount == 2  \* largest invokeCount a handler is built with
MaxBelowZero == 1    \* how far below zero the invokeCount of a handler may start
MaxInvocations == 3  \* invocations the router dispatches to one handler
MaxCallers == 2      \* callers that may have an invocation under way at once
MaxTasks == 2        \* longest task list given to executeTasks
MaxArgs == 2         \* strings handed to listToWampList
MaxKeys == 1         \* entries of the map handed to dictToWampDict
MaxUnits == 6        \* most units of work run through a worker pool
MaxPool == 3         \* largest concurrency of such a pool

\* ------------------------------------------------------------ shared values
NoError == <<"nil">>       \* a nil error
NoSession == <<"nilptr">>  \* a nil *client.Client
Header == "got errors:"    \* first line of the aggregate error
Unset == <<"unset">>       \* no value returned yet

Min(a, b) == IF a < b THEN a ELSE b
Max(a, b) == IF a > b THEN a ELSE b

\* The line fmt.Sprintf("- %v", err) of one error.
ErrLine(e) == <<"- ", e>>

RECURSIVE CollectErrsNewestFirst(_)
\* As CollectErrs, but each line is put in front of the ones collected.
CollectErrsNewestFirst(q) ==
  IF q = <<>> THEN <<>>
  ELSE IF Head(q) # NoError
       THEN CollectErrsNewestFirst(Tail(q)) \o <<ErrLine(Head(q))>>
       ELSE CollectErrsNewestFirst(Tail(q))

RECURSIVE CollectErrs(_)
\* The range loop of getErrorFromErrorChannel: one line per non-nil entry.
CollectErrs(q) ==
  IF q = <<>> THEN <<>>
  ELSE IF Head(q) # NoError
       THEN <<ErrLine(Head(q))>> \o CollectErrs(Tail(q))
       ELSE CollectErrs(Tail(q))

\* fmt.Errorf("got errors:\n%v", strings.Join(errs, "\n")): the message as
\* its sequence of lines; nil when no line was collected.
JoinErrs(errs) == IF Len(errs) # 0 THEN <<Header>> \o errs ELSE NoError

\* getErrorFromErrorChannel of cmd/wick: close(resC), then range over it.
GetErrorFromErrorChannel(q) == JoinErrs(CollectErrs(q))

\* Values of wamp.List and wamp.Dict.  An element is a pair of its dynamic
\* type and its text; a list is the nil slice or a slice of elements; a
\* dict is the nil map or a map, held as its set of <<key, element>> pairs.
StrVal(x) == <<"string", x>>
IntVal(x) == <<"int", x>>
FloatVal(x) == <<"float64", x>>
BoolVal(x) == <<"bool", x>>
BytesVal(x) == <<"[]byte", x>>
NilList == <<"nil">>
List(items) == <<"slice", items>>
NilDict == <<"nil">>
Dict(pairs) == <<"map", pairs>>

\* len of a list and of a dict: zero for the nil ones.
Items(l) == IF l = NilList THEN <<>> ELSE l[2]
Pairs(d) == IF d = NilDict THEN {} ELSE d[2]

\* --------------------------------------------------------------- variables
VARIABLES
  gsDef,        \* which definition of getSessions runs: "outer" or "local"
  gsCount,      \* sessionCount
  gsConc,       \* concurrency
  gsPc,         \* the caller's position in getSessions
  gsI,          \* the loop variable i of the submit loop
  gsTask,       \* per submitted closure: its position
  gsLocal,      \* per closure: the values connect returned to it
  gsSession,    \* the captured variable session (first definition)
  gsErr,        \* the captured variable err (first definition)
  gsSessions,   \* the slice sessions
  gsResC,       \* the buffered channel resC
  gsClosed,     \* resC has been closed
  gsRet,        \* what getSessions returned
  gsOpen,       \* the sessions connect has opened and nothing has closed
  gsKnown       \* clientInfo.AuthMethod has a case in the switch of connect

gsVars == <<gsDef, gsCount, gsConc, gsPc, gsI, gsTask, gsLocal, gsSession,
            gsErr, gsSessions, gsResC, gsClosed, gsRet,
           gsOpen, gsKnown>>

\* The repeated-operation executor (core.Call / core.Publish).
VARIABLES
  exKind,       \* "call" or "publish"
  exRepeat,     \* repeatCount
  exConc,       \* concurrency
  exDelay,      \* the delay, in clock ticks
  exPc,         \* the caller's position in the executor
  exI,          \* the loop variable of the submit loop
  exTask,       \* per unit of work: its position
  exOut,        \* per unit of work: the error its operation returned
  exResC,       \* the error queue
  exClosed,     \* the error queue has been closed
  exRet,        \* the error the executor returned
  iterator,     \* the counter of the counting handler
  exPending,    \* events published and not yet handed to the subscriber
  now           \* the clock, in ticks since the operation was issued

exVars == <<exKind, exRepeat, exConc, exDelay, exPc, exI, exTask, exOut,
            exResC, exClosed, exRet, iterator, exPending, now>>

\* getErrorFromErrorChannel applied to a queue on its own.
VARIABLES
  agIn,         \* the entries queued in resC
  agPc,         \* "ready", or the variant that has run: "cmd" or "core"
  agOut         \* the error returned

agVars == <<agIn, agPc, agOut>>

\* One registration made with registerInvocationHandler.
VARIABLES
  hPc,          \* "on" once the handler is built and registered
  hHasMax,      \* hasMaxInvokeCount
  hN,           \* the invokeCount the handler was built with
  hCallers,     \* invocations the callers keep under way at once
  hInvokeCount, \* the captured variable invokeCount
  hRegistered,  \* the procedure is registered with the router
  hSession,     \* the owning session: "open" or "closed"
  hInv,         \* per invocation: the handler's position
  hTmp,         \* per invocation: the value read by invokeCount--
  hTimers,      \* the pending time.AfterFunc timers: seconds since each was set
  hUnregLog,    \* the session.Unregister calls the handler has made
  hCloseLog,    \* the session.Close calls the handler's timers have made
  hOwnerLog,    \* the Unregister calls of the session's owner
  hOwnerClosed, \* the owner has closed the session
  hCommand,     \* the command the handler was built with ("" for none)
  hShell,       \* per invocation: what its shellOut calls returned
  hResult,      \* per invocation: the local variable result
  hResp         \* per invocation: the InvokeResult the handler returned

hVars == <<hPc, hHasMax, hN, hCallers, hInvokeCount, hRegistered, hSession,
           hInv, hTmp, hTimers, hUnregLog, hCloseLog, hOwnerLog,
           hOwnerClosed, hCommand, hShell, hResult, hResp>>

\* One of the validate functions of the compose runner applied to a task.
VARIABLES
  vTask,        \* the task whose fields are validated
  vPc,          \* "ready", or the kind whose validate function has run
  vErr          \* the error returned

vVars == <<vTask, vPc, vErr>>

\* One run of executeTasks against a producer and a consumer session.
VARIABLES
  etTasks,      \* compose.Tasks
  etPc,         \* "loop", "wait" (inside a session call) or "returned"
  etI,          \* the position of the range loop in compose.Tasks, from 1
  etOps,        \* the session calls issued, in the order of their issue
  etRegs,       \* the callbacks registered on the producer session
  etSubs,       \* the event callbacks subscribed on the producer session
  etInvs,       \* the runs of the invocation callbacks
  etReply,      \* the answer of the callee to the call in progress
  etEvents,     \* events published and not yet handed to their callback
  etDiag,       \* the mismatches logged
  etRet         \* the error executeTasks returned

etVars == <<etTasks, etPc, etI, etOps, etRegs, etSubs, etInvs, etReply,
            etEvents, etDiag, etRet>>

\* One application of equalArgsKwargs.
VARIABLES
  eqList1,      \* list1
  eqList2,      \* list2
  eqDict1,      \* dict1
  eqDict2,      \* dict2
  eqPc,         \* "ready" before the call, "returned" after it
  eqOut         \* the boolean returned

eqVars == <<eqList1, eqList2, eqDict1, eqDict2, eqPc, eqOut>>

\* One call of connect, and selectAuthMethod applied to the same credentials.
VARIABLES
  cnAuth,       \* clientInfo.AuthMethod
  cnKey,        \* clientInfo.PrivateKey
  cnTicket,     \* clientInfo.Ticket
  cnSecret,     \* clientInfo.Secret
  cnLogTime,    \* logTime
  cnPc,         \* "ready", "core" (inside coreConnect*), "tail" or "returned"
  cnCalls,      \* the coreConnect* functions invoked, in order
  cnSession,    \* the local variable session
  cnLog,        \* the lines printed
  cnRet,        \* what connect returned
  cnSel         \* what selectAuthMethod returned, "" before it has run

cnVars == <<cnAuth, cnKey, cnTicket, cnSecret, cnLogTime, cnPc, cnCalls,
            cnSession, cnLog, cnRet, cnSel>>

\* One call of listToWampList or of dictToWampDict.
VARIABLES
  cvKind,       \* "list" for listToWampList, "dict" for dictToWampDict
  cvIn,         \* args, or the values of kwargs under DictKey(1), ...
  cvNil,        \* args or kwargs is nil
  cvCheckFile,  \* checkFile
  cvFiles,      \* the paths os.ReadFile can read
  cvPc,         \* "ready", "loop", "returned" or "panicked"
  cvDone,       \* the entries the range loop has taken
  cvOut,        \* arguments, or keywordArguments
  cvLog,        \* per entry taken: the branch chosen and its outcome
  cvReads,      \* the paths handed to os.ReadFile, in order
  cvRet         \* what the function returned

cvVars == <<cvKind, cvIn, cvNil, cvCheckFile, cvFiles, cvPc, cvDone, cvOut,
            cvLog, cvReads, cvRet>>

\* One call of ArgsKWArgs or of progressArgsKWArgs.
VARIABLES
  fmArgs,       \* args
  fmKwArgs,     \* kwArgs
  fmDetails,    \* details (ArgsKWArgs only)
  fmPc,         \* "ready", or the function that has run: "full", "progress"
  fmOut         \* the text and the error returned

fmVars == <<fmArgs, fmKwArgs, fmDetails, fmPc, fmOut>>

\* The same units of work run twice through a worker pool, once at
\* concurrency 1 and once at a larger one, each unit taking one time step.
VARIABLES
  rdUnits,      \* the number of units of work (sessions, calls, publishes)
  rdConc,       \* the larger concurrency
  rdLeft,       \* per run: the units submitted and not yet finished
  rdRounds      \* per run: the time steps taken so far

rdVars == <<rdUnits, rdConc, rdLeft, rdRounds>>

\* One run of getErrorFromErrorChannel, receive by receive, on the queue the
\* drained pool has left.
VARIABLES
  drVariant,    \* "cmd" or "core"
  drIn,         \* the entries queued when the function is entered
  drQueue,      \* the entries still in resC
  drClosed,     \* resC is closed
  drPc,         \* "enter", "range" or "returned"
  drErrs,       \* the slice errs
  drOut         \* the error returned

drVars == <<drVariant, drIn, drQueue, drClosed, drPc, drErrs, drOut>>

vars == <<gsVars, exVars, agVars, hVars, vVars, etVars, eqVars, cnVars, cvVars, fmVars, rdVars, drVars>>

notGs == <<exVars, agVars, hVars, vVars, etVars, eqVars, cnVars, cvVars, fmVars, rdVars, drVars>>
notEx == <<gsVars, agVars, hVars, vVars, etVars, eqVars, cnVars, cvVars, fmVars, rdVars, drVars>>
notAg == <<gsVars, exVars, hVars, vVars, etVars, eqVars, cnVars, cvVars, fmVars, rdVars, drVars>>
notH == <<gsVars, exVars, agVars, vVars, etVars, eqVars, cnVars, cvVars, fmVars, rdVars, drVars>>
notV == <<gsVars, exVars, agVars, hVars, etVars, eqVars, cnVars, cvVars, fmVars, rdVars, drVars>>
notEt == <<gsVars, exVars, agVars, hVars, vVars, eqVars, cnVars, cvVars, fmVars, rdVars, drVars>>
notEq == <<gsVars, exVars, agVars, hVars, vVars, etVars, cnVars, cvVars, fmVars, rdVars, drVars>>
notCn == <<gsVars, exVars, agVars, hVars, vVars, etVars, eqVars, cvVars, fmVars, rdVars, drVars>>
notCv == <<gsVars, exVars, agVars, hVars, vVars, etVars, eqVars, cnVars, fmVars, rdVars, drVars>>
notFm == <<gsVars, exVars, agVars, hVars, vVars, etVars, eqVars, cnVars, cvVars, rdVars, drVars>>
notRd == <<gsVars, exVars, agVars, hVars, vVars, etVars, eqVars, cnVars, cvVars, fmVars, drVars>>
notDr == <<gsVars, exVars, agVars, hVars, vVars, etVars, eqVars, cnVars, cvVars, fmVars, rdVars>>

Attempts == 1..MaxCount

\* ------------------------------------------------------------- getSessions
\* connect (through coreConnect*): attempt i either joins, giving its own
\* session and a nil error, or fails, giving a nil session and its error;
\* for an AuthMethod without a case no coreConnect* runs and connect returns
\* the zero values of session and err.
Connect(i, ok) ==
  IF ~gsKnown THEN [s |-> NoSession, e |-> NoError]
  ELSE IF ok THEN [s |-> <<"session", i>>, e |-> NoError]
  ELSE [s |-> NoSession, e |-> <<"connect error", i>>]

\* Closures that a worker of the pool is running.
GsRunning == {i \in Attempts : gsTask[i] \in {"writeErr", "append", "send"}}

\* workerpool.New(concurrency): at most that many closures run at once.
GsPoolSize == Max(gsConc, 1)

GsOff ==
  /\ gsDef = "none" /\ gsCount = 0 /\ gsConc = 0 /\ gsPc = "off" /\ gsI = 0
  /\ gsTask = [i \in Attempts |-> "none"]
  /\ gsLocal = [i \in Attempts |-> [s |-> NoSession, e |-> NoError]]
  /\ gsSession = NoSession /\ gsErr = NoError /\ gsSessions = <<>>
  /\ gsResC = <<>> /\ gsClosed = FALSE
  /\ gsRet = [sessions |-> <<>>, err |-> NoError]
  /\ gsOpen = {} /\ gsKnown = TRUE

\* getSessions is entered: wp and resC are made, nothing is submitted yet.
GsInit ==
  /\ gsDef \in {"outer", "local"}
  /\ gsCount \in 1..MaxCount
  /\ gsConc \in 1..MaxConcurrency
  /\ gsPc = "submit" /\ gsI = 0
  /\ gsTask = [i \in Attempts |-> "none"]
  /\ gsLocal = [i \in Attempts |-> [s |-> NoSession, e |-> NoError]]
  /\ gsSession = NoSession /\ gsErr = NoError /\ gsSessions = <<>>
  /\ gsResC = <<>> /\ gsClosed = FALSE
  /\ gsRet = [sessions |-> <<>>, err |-> NoError]
  /\ gsOpen = {} /\ gsKnown \in BOOLEAN

\* for i := 0; i < sessionCount; i++ { wp.Submit(func() {...}) }
GsSubmit ==
  /\ gsPc = "submit"
  /\ IF gsI < gsCount
     THEN /\ gsI' = gsI + 1
          /\ gsTask' = [gsTask EXCEPT ![gsI + 1] = "queued"]
          /\ gsPc' = gsPc
     ELSE /\ gsPc' = "stopwait"
          /\ UNCHANGED <<gsI, gsTask>>
  /\ UNCHANGED notGs
  /\ UNCHANGED <<gsOpen, gsKnown>>
  /\ UNCHANGED <<gsDef, gsCount, gsConc, gsLocal, gsSession, gsErr,
                 gsSessions, gsResC, gsClosed, gsRet>>

\* A free worker takes the oldest queued closure and runs it up to the
\* return of connect; with the first definition the closure then stores the
\* session into the captured variable.
GsConnect(i, ok) ==
  /\ gsTask[i] = "queued"
  /\ \A j \in Attempts : j < i => gsTask[j] # "queued"
  /\ Cardinality(GsRunning) < GsPoolSize
  /\ gsLocal' = [gsLocal EXCEPT ![i] = Connect(i, ok)]
  /\ gsOpen' = IF Connect(i, ok).s # NoSession
               THEN gsOpen \cup {Connect(i, ok).s} ELSE gsOpen
  /\ UNCHANGED gsKnown
  /\ IF gsDef = "outer"
     THEN /\ gsSession' = Connect(i, ok).s
          /\ gsTask' = [gsTask EXCEPT ![i] = "writeErr"]
     ELSE /\ gsSession' = gsSession
          /\ gsTask' = [gsTask EXCEPT ![i] = "append"]
  /\ UNCHANGED notGs
  /\ UNCHANGED <<gsDef, gsCount, gsConc, gsPc, gsI, gsErr, gsSessions,
                 gsResC, gsClosed, gsRet>>

\* First definition only: the second store of "session, err = connect(...)".
GsWriteErr(i) ==
  /\ gsTask[i] = "writeErr"
  /\ gsErr' = gsLocal[i].e
  /\ gsTask' = [gsTask EXCEPT ![i] = "append"]
  /\ UNCHANGED notGs
  /\ UNCHANGED <<gsOpen, gsKnown>>
  /\ UNCHANGED <<gsDef, gsCount, gsConc, gsPc, gsI, gsLocal, gsSession,
                 gsSessions, gsResC, gsClosed, gsRet>>

\* The session the closure appends: the captured variable as it is now, or
\* the closure's own local.
GsSessionRead(i) == IF gsDef = "outer" THEN gsSession ELSE gsLocal[i].s

\* The error the closure sends.
GsErrRead(i) == IF gsDef = "outer" THEN gsErr ELSE gsLocal[i].e

\* sessions = append(sessions, session)
AppendSession(ss, s) == Append(ss, s)

\* mutex.Lock(); sessions = append(sessions, session); mutex.Unlock():
\* the mutex makes the append one step.
GsAppend(i) ==
  /\ gsTask[i] = "append"
  /\ gsSessions' = AppendSession(gsSessions, GsSessionRead(i))
  /\ gsTask' = [gsTask EXCEPT ![i] = "send"]
  /\ UNCHANGED notGs
  /\ UNCHANGED <<gsOpen, gsKnown>>
  /\ UNCHANGED <<gsDef, gsCount, gsConc, gsPc, gsI, gsLocal, gsSession,
                 gsErr, gsResC, gsClosed, gsRet>>

\* As GsCapacity, but the buffer is one entry short.
GsCapacityOneLess == gsCount - 1

\* resC := make(chan error, sessionCount): the capacity of the buffer.
GsCapacity == gsCount

\* resC <- err: the send goes through when the buffer has room; it blocks on
\* a full buffer and panics on a closed channel.
GsSend(i) ==
  /\ gsTask[i] = "send"
  /\ Len(gsResC) < GsCapacity
  /\ ~gsClosed
  /\ gsResC' = Append(gsResC, GsErrRead(i))
  /\ gsTask' = [gsTask EXCEPT ![i] = "done"]
  /\ UNCHANGED notGs
  /\ UNCHANGED <<gsOpen, gsKnown>>
  /\ UNCHANGED <<gsDef, gsCount, gsConc, gsPc, gsI, gsLocal, gsSession,
                 gsErr, gsSessions, gsClosed, gsRet>>

\* No wait for the pool at all.
GsNoWait == TRUE

\* wp.StopWait() returns once every submitted closure has run to its end.
GsDrained == \A i \in Attempts : gsTask[i] \in {"none", "done"}

\* As GsReturn, but the sessions collected are handed back with the error.
GsReturnPartial(e, sessions) == [sessions |-> sessions, err |-> e]

\* if err != nil { return nil, err }; return sessions, nil
GsReturn(e, sessions) ==
  IF e # NoError
  THEN [sessions |-> <<>>, err |-> e]
  ELSE [sessions |-> sessions, err |-> NoError]

\* wp.StopWait(); err = getErrorFromErrorChannel(resC); return
GsStopWaitReturn ==
  /\ gsPc = "stopwait"
  /\ GsDrained
  /\ gsClosed' = TRUE
  /\ LET e == GetErrorFromErrorChannel(gsResC) IN
       /\ gsErr' = IF gsDef = "outer" THEN e ELSE gsErr
       /\ gsRet' = GsReturn(e, gsSessions)
  /\ gsResC' = <<>>
  /\ gsPc' = "returned"
  /\ UNCHANGED notGs
  /\ UNCHANGED <<gsOpen, gsKnown>>
  /\ UNCHANGED <<gsDef, gsCount, gsConc, gsI, gsTask, gsLocal, gsSession,
                 gsSessions>>


\* ------------------------------------------------------- operation executor
Units == 1..MaxRepeat

\* An aggregation that stops at the first error it meets.
CoreFirstErrorOnly(q) ==
  JoinErrs(IF CollectErrs(q) = <<>> THEN <<>> ELSE <<Head(CollectErrs(q))>>)

\* core's getErrorFromErrorChannel: ranges over resC without closing it.
CoreGetErrorFromErrorChannel(q) == JoinErrs(CollectErrs(q))

\* Units of work whose call or publish is in flight.
ExInFlight == {i \in Units : exTask[i] = "running"}

\* A pool one worker too large.
ExPoolSizeOneMore == exConc + 1

\* A pool of size concurrency; a pool made with 0 workers runs one.
ExPoolSize == Max(exConc, 1)

\* The error a failed operation of unit i returns.
OpError(i) == <<"operation error", i>>

ExOff ==
  /\ exKind = "none" /\ exRepeat = 0 /\ exConc = 0 /\ exDelay = 0
  /\ exPc = "off" /\ exI = 0
  /\ exTask = [i \in Units |-> "none"]
  /\ exOut = [i \in Units |-> NoError]
  /\ exResC = <<>> /\ exClosed = FALSE /\ exRet = Unset
  /\ iterator = 0 /\ exPending = 0 /\ now = 0

\* The operation is issued at tick 0.
ExInit ==
  /\ exKind \in {"call", "publish"}
  /\ exRepeat \in 1..MaxRepeat
  /\ exConc \in 0..MaxExConc
  /\ exDelay \in 0..MaxDelay
  /\ exPc = "delay" /\ exI = 0
  /\ exTask = [i \in Units |-> "none"]
  /\ exOut = [i \in Units |-> NoError]
  /\ exResC = <<>> /\ exClosed = FALSE /\ exRet = Unset
  /\ iterator = 0 /\ exPending = 0 /\ now = 0

\* Time passes.
Tick ==
  /\ exPc # "off"
  /\ now < MaxTime
  /\ now' = now + 1
  /\ UNCHANGED notEx
  /\ UNCHANGED <<exKind, exRepeat, exConc, exDelay, exPc, exI, exTask,
                 exOut, exResC, exClosed, exRet, iterator, exPending>>

\* The moment the executor goes on to submit its units.
ExWakeTime == IF exDelay > 0 THEN exDelay ELSE 0

\* if delay > 0, suspend once
ExSleep ==
  /\ exPc = "delay"
  /\ now >= ExWakeTime
  /\ exPc' = "submit"
  /\ UNCHANGED notEx
  /\ UNCHANGED <<exKind, exRepeat, exConc, exDelay, exI, exTask, exOut,
                 exResC, exClosed, exRet, iterator, exPending, now>>

\* A submit loop that stops one unit early.
ExUnitsOneLess == exRepeat - 1

\* The number of units the executor submits.
ExUnits == exRepeat

\* submit repeatCount units of work onto the pool
ExSubmit ==
  /\ exPc = "submit"
  /\ IF exI < ExUnits
     THEN /\ exI' = exI + 1
          /\ exTask' = [exTask EXCEPT ![exI + 1] = "queued"]
          /\ exPc' = exPc
     ELSE /\ exPc' = "stopwait"
          /\ UNCHANGED <<exI, exTask>>
  /\ UNCHANGED notEx
  /\ UNCHANGED <<exKind, exRepeat, exConc, exDelay, exOut, exResC,
                 exClosed, exRet, iterator, exPending, now>>

\* A pause of the delay before every repetition, not only the first.
ExPauseEach(i) == now >= exDelay * i

\* What a unit needs, beyond a free worker, to start its operation.
ExMayStart(i) == TRUE

\* A free worker takes the oldest queued unit and issues its operation.
ExStart(i) ==
  /\ exTask[i] = "queued"
  /\ \A j \in Units : j < i => exTask[j] # "queued"
  /\ Cardinality(ExInFlight) < ExPoolSize
  /\ ExMayStart(i)
  /\ exTask' = [exTask EXCEPT ![i] = "running"]
  /\ UNCHANGED notEx
  /\ UNCHANGED <<exKind, exRepeat, exConc, exDelay, exPc, exI, exOut,
                 exResC, exClosed, exRet, iterator, exPending, now>>

\* The operation of unit i ends (a call after the handler ran and its
\* result came back, a publish once the event is sent) and the unit reports
\* its outcome to the error queue; the other units go on either way.
ExFinish(i, ok) ==
  /\ exTask[i] = "running"
  /\ Len(exResC) < exRepeat
  /\ exTask' = [exTask EXCEPT ![i] = "done"]
  /\ exOut' = [exOut EXCEPT ![i] = IF ok THEN NoError ELSE OpError(i)]
  /\ exResC' = Append(exResC, IF ok THEN NoError ELSE OpError(i))
  /\ iterator' = IF ok /\ exKind = "call" THEN iterator + 1 ELSE iterator
  /\ exPending' = IF ok /\ exKind = "publish" THEN exPending + 1
                  ELSE exPending
  /\ UNCHANGED notEx
  /\ UNCHANGED <<exKind, exRepeat, exConc, exDelay, exPc, exI, exClosed,
                 exRet, now>>

\* The broker hands a published event to the counting subscriber.
ExDeliver ==
  /\ exPending > 0
  /\ exPending' = exPending - 1
  /\ iterator' = iterator + 1
  /\ UNCHANGED notEx
  /\ UNCHANGED <<exKind, exRepeat, exConc, exDelay, exPc, exI, exTask,
                 exOut, exResC, exClosed, exRet, now>>

\* The pool has drained: every submitted unit has reported.
ExDrained == \A i \in Units : exTask[i] \in {"none", "done"}

\* After the pool drains the queue is closed and the errors are merged.
ExStopWaitReturn ==
  /\ exPc = "stopwait"
  /\ ExDrained
  /\ exClosed' = TRUE
  /\ exRet' = CoreGetErrorFromErrorChannel(exResC)
  /\ exResC' = <<>>
  /\ exPc' = "returned"
  /\ UNCHANGED notEx
  /\ UNCHANGED <<exKind, exRepeat, exConc, exDelay, exI, exTask, exOut,
                 iterator, exPending, now>>

NextExec ==
  \/ Tick
  \/ ExSleep
  \/ ExSubmit
  \/ \E i \in Units : ExStart(i)
  \/ \E i \in Units, ok \in BOOLEAN : ExFinish(i, ok)
  \/ ExDeliver
  \/ ExStopWaitReturn

NextSessions ==
  \/ GsSubmit
  \/ \E i \in Attempts, ok \in BOOLEAN : GsConnect(i, ok)
  \/ \E i \in Attempts : GsWriteErr(i)
  \/ \E i \in Attempts : GsAppend(i)
  \/ \E i \in Attempts : GsSend(i)
  \/ GsStopWaitReturn

\* ---------------------------------------------------- error aggregation
ErrValues == {NoError} \cup {<<"error", k>> : k \in 1..MaxErrs}

Queues == UNION {[1..n -> ErrValues] : n \in 0..MaxQueue}

AgOff == agIn = <<>> /\ agPc = "off" /\ agOut = Unset

\* A drained queue: every entry is nil or an error.
AgInit == agIn \in Queues /\ agPc = "ready" /\ agOut = Unset

\* getErrorFromErrorChannel of cmd/wick on the queue.
AgCmd ==
  /\ agPc = "ready"
  /\ agOut' = GetErrorFromErrorChannel(agIn)
  /\ agPc' = "cmd"
  /\ UNCHANGED agIn
  /\ UNCHANGED notAg

\* getErrorFromErrorChannel of core on the (closed) queue.
AgCore ==
  /\ agPc = "ready"
  /\ agOut' = CoreGetErrorFromErrorChannel(agIn)
  /\ agPc' = "core"
  /\ UNCHANGED agIn
  /\ UNCHANGED notAg

NextAgg ==
  \/ AgCmd
  \/ AgCore

\* ------------------------------------------------ registerInvocationHandler
Invs == 1..MaxInvocations

\* time.AfterFunc(1*time.Second, ...): the grace period, in seconds.
Grace == 1

\* The arguments of an invocation, as json.MarshalIndent sees them: values it
\* encodes, or a value it refuses (a NaN, a channel, a function).
ArgKinds == {"plain", "unmarshalable"}

\* ArgsKWArgs(inv.Arguments, inv.ArgumentsKw, nil) returns a non-nil error
\* exactly when json.MarshalIndent refuses the arguments.
ArgsKWArgsFails(a) == a = "unmarshalable"

\* The command given to registerInvocationHandler: none, or a shell command.
Commands == {"", "cmd"}

\* What a command may have written to its standard output.
Outputs == {"", "out"}

\* shellOut(command): the captured standard output and the error of cmd.Run
\* (the captured standard error is discarded by the handler).
ShellOut(o, ok) == [out |-> o, err |-> IF ok THEN NoError ELSE <<"exit status">>]

\* No InvokeResult has been returned.
NoResult == [Err |-> "unset", Args |-> <<>>]

\* client.InvokeResult{Err: "wamp.error.internal_error", Args: wamp.List{err}}
InternalError == [Err |-> "wamp.error.internal_error", Args |-> <<"error">>]

\* A payload that never carries result.
HPayloadBlank(result) == <<"">>

\* wamp.List{result}
HPayload(result) == <<result>>

\* client.InvokeResult{Args: wamp.List{result}}
InvokeResult(result) == [Err |-> "", Args |-> HPayload(result)]

\* Invocations whose handler is running.
HUnderWay == {k \in Invs : hInv[k] \in {"load", "store", "test"}}

\* Invocations whose handler has returned.
HDone == {k \in Invs : hInv[k] = "done"}

\* Invocations whose handler has returned through its last return statement.
HServed == {k \in HDone : hResp[k].Err = ""}

HOff ==
  /\ hPc = "off" /\ hHasMax = FALSE /\ hN = 0 /\ hCallers = 0
  /\ hInvokeCount = 0 /\ hRegistered = FALSE /\ hSession = "none"
  /\ hInv = [k \in Invs |-> "none"] /\ hTmp = [k \in Invs |-> 0]
  /\ hTimers = <<>> /\ hUnregLog = <<>> /\ hCloseLog = <<>>
  /\ hOwnerLog = <<>> /\ hOwnerClosed = FALSE
  /\ hCommand = "" /\ hShell = [k \in Invs |-> <<>>]
  /\ hResult = [k \in Invs |-> ""] /\ hResp = [k \in Invs |-> NoResult]

\* The handler is built and registered on an open session.
HBuilt ==
  /\ hPc = "on"
  /\ hHasMax \in BOOLEAN
  /\ hN \in (0 - MaxBelowZero)..MaxInvokeCount
  /\ hInvokeCount = hN /\ hRegistered = TRUE /\ hSession = "open"
  /\ hInv = [k \in Invs |-> "none"] /\ hTmp = [k \in Invs |-> 0]
  /\ hTimers = <<>> /\ hUnregLog = <<>> /\ hCloseLog = <<>>
  /\ hOwnerLog = <<>> /\ hOwnerClosed = FALSE
  /\ hShell = [k \in Invs |-> <<>>]
  /\ hResult = [k \in Invs |-> ""] /\ hResp = [k \in Invs |-> NoResult]

\* A registration without a command, with up to MaxCallers callers.
HInit ==
  /\ HBuilt
  /\ hCommand = ""
  /\ hCallers \in 1..MaxCallers

\* A registration with or without a command, called by one caller.
HInitCmd ==
  /\ HBuilt
  /\ hCommand \in Commands
  /\ hCallers = 1

\* One second passes for the pending timers (only they read the clock; a
\* timer that is due stays due).
HTick ==
  /\ hPc = "on"
  /\ \E n \in 1..Len(hTimers) : hTimers[n] < Grace
  /\ hTimers' = [n \in 1..Len(hTimers) |-> Min(hTimers[n] + 1, Grace)]
  /\ UNCHANGED notH
  /\ UNCHANGED <<hPc, hHasMax, hN, hCallers, hInvokeCount, hRegistered,
                 hSession, hInv, hTmp, hUnregLog, hCloseLog, hOwnerLog,
                 hOwnerClosed, hCommand, hShell, hResult, hResp>>

\* The router dispatches invocation k to the registered procedure and the
\* handler runs up to "if hasMaxInvokeCount": it formats the arguments
\* (returning an internal error when that fails) and runs the command, if
\* one was given, keeping its standard output as result.
HBegin(k) ==
  /\ hPc = "on"
  /\ hRegistered /\ hSession = "open"
  /\ hInv[k] = "none"
  /\ \A j \in Invs : j < k => hInv[j] # "none"
  /\ Cardinality(HUnderWay) < hCallers
  /\ \E a \in ArgKinds :
       IF ArgsKWArgsFails(a)
       THEN /\ hResp' = [hResp EXCEPT ![k] = InternalError]
            /\ hInv' = [hInv EXCEPT ![k] = "done"]
            /\ UNCHANGED <<hShell, hResult>>
       ELSE /\ hInv' = [hInv EXCEPT ![k] = IF hHasMax THEN "load" ELSE "test"]
            /\ IF hCommand # ""
               THEN \E o \in Outputs, ok \in BOOLEAN :
                      /\ hShell' = [hShell EXCEPT
                                      ![k] = Append(@, ShellOut(o, ok))]
                      /\ hResult' = [hResult EXCEPT ![k] = ShellOut(o, ok).out]
               ELSE UNCHANGED <<hShell, hResult>>
            /\ UNCHANGED hResp
  /\ UNCHANGED notH
  /\ UNCHANGED <<hPc, hHasMax, hN, hCallers, hInvokeCount, hRegistered,
                 hSession, hTmp, hTimers, hUnregLog, hCloseLog, hOwnerLog,
                 hOwnerClosed, hCommand>>

\* invokeCount--, the read
HLoad(k) ==
  /\ hInv[k] = "load"
  /\ hTmp' = [hTmp EXCEPT ![k] = hInvokeCount]
  /\ hInv' = [hInv EXCEPT ![k] = "store"]
  /\ UNCHANGED notH
  /\ UNCHANGED <<hPc, hHasMax, hN, hCallers, hInvokeCount, hRegistered,
                 hSession, hTimers, hUnregLog, hCloseLog, hOwnerLog,
                 hOwnerClosed, hCommand, hShell, hResult, hResp>>

\* invokeCount--, the write
HStore(k) ==
  /\ hInv[k] = "store"
  /\ hInvokeCount' = hTmp[k] - 1
  /\ hTmp' = [hTmp EXCEPT ![k] = 0]
  /\ hInv' = [hInv EXCEPT ![k] = "test"]
  /\ UNCHANGED notH
  /\ UNCHANGED <<hPc, hHasMax, hN, hCallers, hRegistered, hSession,
                 hTimers, hUnregLog, hCloseLog, hOwnerLog, hOwnerClosed,
                 hCommand, hShell, hResult, hResp>>

\* A test that also succeeds once the counter is below zero.
HExhaustedBelow == hInvokeCount <= 0

\* A test that is one invocation early.
HExhaustedEarly == hInvokeCount <= 1

\* The test that makes the handler unregister: invokeCount == 0.
HExhausted == hInvokeCount = 0

\* The seconds a timer waits before it runs its function.
TimerWait == Grace

\* if invokeCount == 0 { _ = session.Unregister(procedure);
\*                       time.AfterFunc(1*time.Second, ...) }
\* return client.InvokeResult{Args: wamp.List{result}}
HTest(k) ==
  /\ hInv[k] = "test"
  /\ IF hHasMax /\ HExhausted
     THEN /\ hRegistered' = FALSE
          /\ hUnregLog' = Append(hUnregLog,
               [inv |-> k,
                res |-> IF hRegistered /\ hSession = "open" THEN "ok"
                        ELSE "error",
                session |-> hSession])
          /\ hTimers' = Append(hTimers, 0)
     ELSE UNCHANGED <<hRegistered, hUnregLog, hTimers>>
  /\ hResp' = [hResp EXCEPT ![k] = InvokeResult(hResult[k])]
  /\ hInv' = [hInv EXCEPT ![k] = "done"]
  /\ UNCHANGED notH
  /\ UNCHANGED <<hPc, hHasMax, hN, hCallers, hInvokeCount, hSession, hTmp,
                 hCloseLog, hOwnerLog, hOwnerClosed, hCommand, hShell,
                 hResult>>

\* The sequence s without its n-th element.
Without(s, n) == [i \in 1..(Len(s) - 1) |-> IF i < n THEN s[i] ELSE s[i + 1]]

\* A timer set by the handler runs: log "session closing"; session.Close()
HTimerFire(n) ==
  /\ n \in 1..Len(hTimers)
  /\ hTimers[n] >= TimerWait
  /\ hTimers' = Without(hTimers, n)
  /\ hCloseLog' = Append(hCloseLog,
       [waited |-> hTimers[n], remaining |-> hInvokeCount,
        unregistered |-> Len(hUnregLog), session |-> hSession])
  /\ hSession' = "closed"
  /\ hRegistered' = FALSE
  /\ UNCHANGED notH
  /\ UNCHANGED <<hPc, hHasMax, hN, hCallers, hInvokeCount, hInv, hTmp,
                 hUnregLog, hOwnerLog, hOwnerClosed, hCommand, hShell,
                 hResult, hResp>>

\* The owner of the session calls session.Unregister(procedure), before it
\* closes the session itself; the call fails when the procedure is not
\* registered (any more).
OwnerUnregister ==
  /\ hPc = "on"
  /\ hOwnerLog = <<>>
  /\ ~hOwnerClosed
  /\ hOwnerLog' = Append(hOwnerLog,
       [done |-> Cardinality(HDone),
        served |-> Cardinality(HServed),
        res |-> IF hRegistered /\ hSession = "open" THEN "ok" ELSE "error",
        session |-> hSession])
  /\ hRegistered' = FALSE
  /\ UNCHANGED notH
  /\ UNCHANGED <<hPc, hHasMax, hN, hCallers, hInvokeCount, hSession, hInv,
                 hTmp, hTimers, hUnregLog, hCloseLog, hOwnerClosed,
                 hCommand, hShell, hResult, hResp>>

\* The owner of the session closes it.
OwnerClose ==
  /\ hPc = "on"
  /\ ~hOwnerClosed
  /\ hOwnerClosed' = TRUE
  /\ hSession' = "closed"
  /\ hRegistered' = FALSE
  /\ UNCHANGED notH
  /\ UNCHANGED <<hPc, hHasMax, hN, hCallers, hInvokeCount, hInv, hTmp,
                 hTimers, hUnregLog, hCloseLog, hOwnerLog, hCommand,
                 hShell, hResult, hResp>>

NextHandler ==
  \/ HTick
  \/ \E k \in Invs : HBegin(k)
  \/ \E k \in Invs : HLoad(k)
  \/ \E k \in Invs : HStore(k)
  \/ \E k \in Invs : HTest(k)
  \/ \E n \in 1..MaxInvocations : HTimerFire(n)
  \/ OwnerUnregister
  \/ OwnerClose

\* ------------------------------------------------------- compose: validate
\* The task kinds (the constants register, call, subscribe, publish).
Kinds == {"register", "call", "subscribe", "publish"}

\* A nil *argsKwargs.
NilArgs == <<"nil">>

\* An argsKwargs value: its Args list and its Kwargs dictionary (as pairs).
ArgsKwargs(args, kwargs) == <<args, kwargs>>

\* The payloads tasks declare: ["Hello", "ok"] {"key": "value"} and a
\* payload without keyword arguments.
Declared ==
  {ArgsKwargs(List(<<StrVal("Hello"), StrVal("ok")>>),
              Dict({<<"key", StrVal("value")>>})),
   ArgsKwargs(List(<<StrVal("Hello")>>), NilDict)}

\* The values of the Procedure and the Topic of a task.
Procedures == {"", "foo.test"}
Topics == {"", "foo.topic"}

\* The *argsKwargs fields of a task, by their yaml names.
PointerFields == {"yield", "invocation", "parameters", "result", "event"}

\* fmt.Errorf("<field> is required for <kind>") and
\* fmt.Errorf("<field> is|are not required for <kind>"): the message as its
\* three pieces.
Required(field, kind) == <<field, " is required for ", kind>>
NotRequired(field, verb, kind) == <<field, verb, kind>>

ValidateRegister(procedure, topic, event, result, parameters) ==
  IF procedure = "" THEN Required("procedure", "register")
  ELSE IF topic # "" THEN NotRequired("topic", " is not required for ", "register")
  ELSE IF event # NilArgs THEN NotRequired("event", " is not required for ", "register")
  ELSE IF result # NilArgs THEN NotRequired("result", " is not required for ", "register")
  ELSE IF parameters # NilArgs
       THEN NotRequired("parameters", " are not required for ", "register")
  ELSE NoError

ValidateCall(procedure, topic, event, yield, invocation) ==
  IF procedure = "" THEN Required("procedure", "call")
  ELSE IF topic # "" THEN NotRequired("topic", " is not required for ", "call")
  ELSE IF event # NilArgs THEN NotRequired("event", " is not required for ", "call")
  ELSE IF yield # NilArgs THEN NotRequired("yield", " is not required for ", "call")
  ELSE IF invocation # NilArgs
       THEN NotRequired("invocation", " are not required for ", "call")
  ELSE NoError

\* validateSubscribe without its last test.
ValidateSubscribeLax(topic, procedure, result, yield, invocation, parameters) ==
  IF topic = "" THEN Required("topic", "subscribe")
  ELSE IF procedure # ""
       THEN NotRequired("procedure", " is not required for ", "subscribe")
  ELSE IF result # NilArgs
       THEN NotRequired("result", " is not required for ", "subscribe")
  ELSE IF yield # NilArgs
       THEN NotRequired("yield", " is not required for ", "subscribe")
  ELSE IF invocation # NilArgs
       THEN NotRequired("invocation", " is not required for ", "subscribe")
  ELSE NoError

ValidateSubscribe(topic, procedure, result, yield, invocation, parameters) ==
  IF topic = "" THEN Required("topic", "subscribe")
  ELSE IF procedure # ""
       THEN NotRequired("procedure", " is not required for ", "subscribe")
  ELSE IF result # NilArgs
       THEN NotRequired("result", " is not required for ", "subscribe")
  ELSE IF yield # NilArgs
       THEN NotRequired("yield", " is not required for ", "subscribe")
  ELSE IF invocation # NilArgs
       THEN NotRequired("invocation", " is not required for ", "subscribe")
  ELSE IF parameters # NilArgs
       THEN NotRequired("parameters", " are not required for ", "subscribe")
  ELSE NoError

\* validatePublish with the message of the result test repeated for the
\* event test.
ValidatePublishCopied(topic, procedure, event, yield, invocation, result) ==
  IF topic = "" THEN Required("topic", "publish")
  ELSE IF procedure # ""
       THEN NotRequired("procedure", " is not required for ", "publish")
  ELSE IF result # NilArgs
       THEN NotRequired("result", " is not required for ", "publish")
  ELSE IF yield # NilArgs
       THEN NotRequired("yield", " is not required for ", "publish")
  ELSE IF invocation # NilArgs
       THEN NotRequired("invocation", " is not required for ", "publish")
  ELSE IF event # NilArgs
       THEN NotRequired("result", " is not required for ", "publish")
  ELSE NoError

ValidatePublish(topic, procedure, event, yield, invocation, result) ==
  IF topic = "" THEN Required("topic", "publish")
  ELSE IF procedure # ""
       THEN NotRequired("procedure", " is not required for ", "publish")
  ELSE IF result # NilArgs
       THEN NotRequired("result", " is not required for ", "publish")
  ELSE IF yield # NilArgs
       THEN NotRequired("yield", " is not required for ", "publish")
  ELSE IF invocation # NilArgs
       THEN NotRequired("invocation", " is not required for ", "publish")
  ELSE IF event # NilArgs
       THEN NotRequired("event", " is not required for ", "publish")
  ELSE NoError

\* The validate function executeTasks applies to a task of the kind, with
\* the fields of the task in the order of the call.
Validate(kind, t) ==
  CASE kind = "register" ->
         ValidateRegister(t.Procedure, t.Topic, t.Event, t.Result, t.Parameters)
    [] kind = "call" ->
         ValidateCall(t.Procedure, t.Topic, t.Event, t.Yield, t.Invocation)
    [] kind = "subscribe" ->
         ValidateSubscribe(t.Topic, t.Procedure, t.Result, t.Yield,
                           t.Invocation, t.Parameters)
    [] kind = "publish" ->
         ValidatePublish(t.Topic, t.Procedure, t.Event, t.Yield,
                         t.Invocation, t.Result)

\* The fields of a task the validate functions read, over all their values.
TaskFields ==
  [Procedure : Procedures, Topic : Topics,
   Yield : {NilArgs} \cup Declared, Invocation : {NilArgs} \cup Declared,
   Parameters : {NilArgs} \cup Declared, Result : {NilArgs} \cup Declared,
   Event : {NilArgs} \cup Declared]

VOff == vTask = NilArgs /\ vPc = "off" /\ vErr = NoError

VInit == vTask \in TaskFields /\ vPc = "ready" /\ vErr = NoError

\* validateRegister, validateCall, validateSubscribe or validatePublish on
\* the fields of the task.
VValidate(kind) ==
  /\ vPc = "ready"
  /\ vErr' = Validate(kind, vTask)
  /\ vPc' = kind
  /\ UNCHANGED vTask
  /\ UNCHANGED notV

NextValidate == \E kind \in Kinds : VValidate(kind)

\* --------------------------------------------------- compose: executeTasks
\* The payload of the test tasks: ["Hello", "ok"] {"key": "value"}.
Hello ==
  ArgsKwargs(List(<<StrVal("Hello"), StrVal("ok")>>), Dict({<<"key", StrVal("value")>>}))

\* The payload of a call or publish without parameters, and of
\* client.InvokeResult{}: no arguments, no keyword arguments.
EmptyPayload == ArgsKwargs(NilList, NilDict)

\* A task with the fields executeTasks reads.
Task(type, procedure, topic, yield, invocation, parameters, result, event) ==
  [Type |-> type, Procedure |-> procedure, Topic |-> topic, Yield |-> yield,
   Invocation |-> invocation, Parameters |-> parameters, Result |-> result,
   Event |-> event]

Optional == {NilArgs, Hello}

\* The tasks a compose file is made of here: the legal tasks of each kind
\* over their optional fields, for each kind a task without its required
\* field and a task with a forbidden field, and tasks of no valid kind.
LegalTasks ==
  {Task("register", "foo.test", "", y, i, NilArgs, NilArgs, NilArgs) :
     y \in Optional, i \in Optional}
  \cup {Task("call", "foo.test", "", NilArgs, NilArgs, p, r, NilArgs) :
          p \in Optional, r \in Optional}
  \cup {Task("subscribe", "", "foo.topic", NilArgs, NilArgs, NilArgs, NilArgs, e) :
          e \in Optional}
  \cup {Task("publish", "", "foo.topic", NilArgs, NilArgs, p, NilArgs, NilArgs) :
          p \in Optional}

IllegalTasks ==
  {Task(k, "", "", NilArgs, NilArgs, NilArgs, NilArgs, NilArgs) : k \in Kinds}
  \cup {Task("register", "foo.test", "foo.topic", NilArgs, NilArgs, NilArgs,
             NilArgs, NilArgs),
        Task("call", "foo.test", "", Hello, NilArgs, NilArgs, NilArgs, NilArgs),
        Task("subscribe", "foo.test", "foo.topic", NilArgs, NilArgs, NilArgs,
             NilArgs, NilArgs),
        Task("publish", "", "foo.topic", NilArgs, NilArgs, NilArgs, NilArgs,
             Hello)}

OtherTasks ==
  {Task("hello", "foo.test", "", NilArgs, NilArgs, NilArgs, NilArgs, NilArgs),
   Task("", "", "foo.topic", NilArgs, NilArgs, NilArgs, NilArgs, Hello)}

TaskSet == LegalTasks \cup IllegalTasks \cup OtherTasks

\* The task lists of up to MaxTasks tasks.
TaskLists == UNION {[1..n -> TaskSet] : n \in 0..MaxTasks}

\* equalArgsKwargs: reflect.DeepEqual of the lists, then of the dictionaries.
EqualArgsKwargs(list1, list2, dict1, dict2) ==
  IF list1 # list2 THEN FALSE ELSE dict1 = dict2

\* The arguments a call or a publish sends for the Parameters of its task.
Sent(parameters) == IF parameters = NilArgs THEN EmptyPayload ELSE parameters

\* An expectation is declared and differs from the actual payload: the
\* condition under which a mismatch is logged.
Mismatch(expected, actual) ==
  /\ expected # NilArgs
  /\ ~EqualArgsKwargs(expected[1], actual[1], expected[2], actual[2])

\* An error result for an invocation.
ErrorResult ==
  ArgsKwargs(List(<<StrVal("wamp.error.invalid_argument")>>), NilDict)

\* A callback that answers an unexpected invocation with an error.
InvocationResponseStrict(invoke, yield, actual) ==
  IF Mismatch(invoke, actual) THEN ErrorResult
  ELSE IF yield # NilArgs THEN ArgsKwargs(yield[1], yield[2])
  ELSE EmptyPayload

\* A callback that answers with the arguments it received when no yield is
\* declared.
InvocationResponseEcho(invoke, yield, actual) ==
  IF yield # NilArgs THEN ArgsKwargs(yield[1], yield[2]) ELSE actual

\* The InvokeResult of the callback built by invocationHandler(invoke,
\* yield) for an invocation with the actual arguments.
InvocationResponse(invoke, yield, actual) ==
  IF yield # NilArgs THEN ArgsKwargs(yield[1], yield[2]) ELSE EmptyPayload

\* The message that names only three of the kinds.
UnsupportedShort(type) ==
  <<type, " not supported: supported types are ",
    "register", "call", "subscribe">>

\* fmt.Errorf("%s not supported: supported types are %s, %s, %s, %s", ...)
Unsupported(type) ==
  <<type, " not supported: supported types are ",
    "register", "call", "subscribe", "publish">>

\* A check that validates register tasks only.
EtCheckRegisterOnly(t) ==
  IF t.Type \notin Kinds THEN Unsupported(t.Type)
  ELSE IF t.Type = "register" THEN Validate(t.Type, t)
  ELSE NoError

\* The switch on task.Type up to the session call: the error of the
\* validate function of the kind, or of the default case.
EtCheck(t) ==
  IF t.Type \notin Kinds THEN Unsupported(t.Type) ELSE Validate(t.Type, t)

\* Publish handed to a goroutine of its own.
EtBlocksButPublish(kind) == kind # "publish"

\* Register, Call, Subscribe and Publish return to executeTasks only when
\* the operation is done.
EtBlocks(kind) == TRUE

\* A failure of the session call that is dropped.
SessionErrorDropped(kind) == NoError

\* The error a failed session call returns.
SessionError(kind) == <<kind, " failed">>

EtOff ==
  /\ etTasks = <<>> /\ etPc = "off" /\ etI = 0 /\ etOps = <<>>
  /\ etRegs = <<>> /\ etSubs = <<>> /\ etInvs = <<>> /\ etReply = Unset
  /\ etEvents = <<>> /\ etDiag = <<>> /\ etRet = Unset

EtInit ==
  /\ etTasks \in TaskLists
  /\ etPc = "loop" /\ etI = 1 /\ etOps = <<>>
  /\ etRegs = <<>> /\ etSubs = <<>> /\ etInvs = <<>> /\ etReply = Unset
  /\ etEvents = <<>> /\ etDiag = <<>> /\ etRet = Unset

\* The session call in progress.
EtCurrent == etOps[Len(etOps)]

\* One iteration of the range loop up to its session call: the task is
\* checked and either executeTasks returns the error or the call is issued.
EtBegin ==
  /\ etPc = "loop"
  /\ etI <= Len(etTasks)
  /\ LET t == etTasks[etI] IN
       IF EtCheck(t) # NoError
       THEN /\ etRet' = EtCheck(t)
            /\ etPc' = "returned"
            /\ UNCHANGED <<etOps, etI>>
       ELSE /\ etOps' = Append(etOps, [task |-> etI, kind |-> t.Type,
                                        state |-> "issued"])
            /\ IF EtBlocks(t.Type)
               THEN etPc' = "wait" /\ UNCHANGED etI
               ELSE etPc' = "loop" /\ etI' = etI + 1
            /\ UNCHANGED etRet
  /\ UNCHANGED <<etTasks, etRegs, etSubs, etInvs, etReply, etEvents, etDiag>>
  /\ UNCHANGED notEt

\* The state of the call in progress becomes st.
EtSettle(st) == [etOps EXCEPT ![Len(etOps)].state = st]

\* The session call in progress returns an error: executeTasks returns it.
EtFail ==
  /\ etPc = "wait"
  /\ etOps' = EtSettle("failed")
  /\ etRet' = SessionError(EtCurrent.kind)
  /\ etPc' = "returned"
  /\ etReply' = Unset
  /\ UNCHANGED <<etTasks, etI, etRegs, etSubs, etInvs, etEvents, etDiag>>
  /\ UNCHANGED notEt

\* producerSession.Register(task.Procedure, invocationHandler(invoke, yield),
\* task.Options) is acknowledged.
EtRegister ==
  /\ etPc = "wait" /\ EtCurrent.kind = "register"
  /\ LET t == etTasks[etI] IN
       etRegs' = Append(etRegs, [task |-> etI, procedure |-> t.Procedure,
                                 invoke |-> t.Invocation, yield |-> t.Yield])
  /\ etOps' = EtSettle("acked")
  /\ etI' = etI + 1 /\ etPc' = "loop"
  /\ UNCHANGED <<etTasks, etSubs, etInvs, etReply, etEvents, etDiag, etRet>>
  /\ UNCHANGED notEt

\* The call in progress reaches a callback registered by this run: the
\* callback logs a mismatch with its declared invocation and answers.
EtInvoke(n) ==
  /\ etPc = "wait" /\ EtCurrent.kind = "call" /\ etReply = Unset
  /\ n \in 1..Len(etRegs)
  /\ etRegs[n].procedure = etTasks[etI].Procedure
  /\ LET r == etRegs[n]
         actual == Sent(etTasks[etI].Parameters)
         resp == InvocationResponse(r.invoke, r.yield, actual)
     IN /\ etInvs' = Append(etInvs, [task |-> r.task, invoke |-> r.invoke,
                                      yield |-> r.yield, actual |-> actual,
                                      resp |-> resp])
        /\ etDiag' = IF Mismatch(r.invoke, actual)
                     THEN Append(etDiag, [task |-> r.task, what |-> "invocation"])
                     ELSE etDiag
        /\ etReply' = resp
  /\ UNCHANGED <<etTasks, etPc, etI, etOps, etRegs, etSubs, etEvents, etRet>>
  /\ UNCHANGED notEt

\* The results the call in progress may return: the answer of the callback
\* of this run, or, when the procedure is registered by somebody else, any
\* result.
EtResults ==
  IF etPc # "wait" THEN {}
  ELSE IF \E n \in 1..Len(etRegs) :
            etRegs[n].procedure = etTasks[etI].Procedure
       THEN {etReply} \ {Unset}
  ELSE {EmptyPayload, Hello}

\* consumerSession.Call returns a result; a mismatch with the declared
\* result is logged.
EtCall(other) ==
  /\ etPc = "wait" /\ EtCurrent.kind = "call"
  /\ other \in EtResults
  /\ etDiag' = IF Mismatch(etTasks[etI].Result, other)
               THEN Append(etDiag, [task |-> etI, what |-> "result"])
               ELSE etDiag
  /\ etOps' = EtSettle("acked")
  /\ etReply' = Unset
  /\ etI' = etI + 1 /\ etPc' = "loop"
  /\ UNCHANGED <<etTasks, etRegs, etSubs, etInvs, etEvents, etRet>>
  /\ UNCHANGED notEt

\* producerSession.Subscribe(task.Topic, func(event), task.Options) is
\* acknowledged.
EtSubscribe ==
  /\ etPc = "wait" /\ EtCurrent.kind = "subscribe"
  /\ etSubs' = Append(etSubs, [task |-> etI, topic |-> etTasks[etI].Topic,
                               e |-> etTasks[etI].Event])
  /\ etOps' = EtSettle("acked")
  /\ etI' = etI + 1 /\ etPc' = "loop"
  /\ UNCHANGED <<etTasks, etRegs, etInvs, etReply, etEvents, etDiag, etRet>>
  /\ UNCHANGED notEt

\* The events a publish to the topic gives rise to: one per subscription.
EventsFor(topic, actual) ==
  LET subs == SelectSeq(etSubs, LAMBDA sub : sub.topic = topic)
  IN [n \in 1..Len(subs) |-> [task |-> subs[n].task, e |-> subs[n].e,
                              actual |-> actual]]

\* consumerSession.Publish returns nil: the event is on its way to the
\* subscriptions of this run.
EtPublish ==
  /\ etPc = "wait" /\ EtCurrent.kind = "publish"
  /\ etEvents' = etEvents \o EventsFor(etTasks[etI].Topic,
                                       Sent(etTasks[etI].Parameters))
  /\ etOps' = EtSettle("acked")
  /\ etI' = etI + 1 /\ etPc' = "loop"
  /\ UNCHANGED <<etTasks, etRegs, etSubs, etInvs, etReply, etDiag, etRet>>
  /\ UNCHANGED notEt

\* An event reaches the event callback of a subscribe task, which logs a
\* mismatch with the declared event.
EtDeliver ==
  /\ etEvents # <<>>
  /\ etDiag' = IF Mismatch(Head(etEvents).e, Head(etEvents).actual)
               THEN Append(etDiag, [task |-> Head(etEvents).task,
                                    what |-> "event"])
               ELSE etDiag
  /\ etEvents' = Tail(etEvents)
  /\ UNCHANGED <<etTasks, etPc, etI, etOps, etRegs, etSubs, etInvs, etReply,
                 etRet>>
  /\ UNCHANGED notEt

\* The range loop is over: return nil.
EtReturn ==
  /\ etPc = "loop"
  /\ etI > Len(etTasks)
  /\ etRet' = NoError
  /\ etPc' = "returned"
  /\ UNCHANGED <<etTasks, etI, etOps, etRegs, etSubs, etInvs, etReply,
                 etEvents, etDiag>>
  /\ UNCHANGED notEt

NextTasks ==
  \/ EtBegin
  \/ EtFail
  \/ EtRegister
  \/ \E n \in 1..MaxTasks : EtInvoke(n)
  \/ \E other \in EtResults : EtCall(other)
  \/ EtSubscribe
  \/ EtPublish
  \/ EtDeliver
  \/ EtReturn

\* ------------------------------------------------- compose: equalArgsKwargs
\* The lists compared: nil, empty, and lists that differ in the length, the
\* type or the value of an element.
EqLists ==
  {NilList, List(<<>>), List(<<StrVal("foo")>>), List(<<StrVal("bar")>>),
   List(<<IntVal("1")>>), List(<<StrVal("1")>>), List(<<StrVal("foo"), IntVal("1")>>)}

\* The dicts compared: nil, empty, and dicts that differ in a key, in the
\* type or the value under a key, or in the number of keys.
EqDicts ==
  {NilDict, Dict({}), Dict({<<"key1", StrVal("value1")>>}),
   Dict({<<"key1", StrVal("2")>>}), Dict({<<"key1", IntVal("2")>>}),
   Dict({<<"key2", StrVal("value1")>>}),
   Dict({<<"key1", StrVal("value1")>>, <<"key2", StrVal("2")>>})}

EqOff ==
  /\ eqList1 = NilList /\ eqList2 = NilList
  /\ eqDict1 = NilDict /\ eqDict2 = NilDict
  /\ eqPc = "off" /\ eqOut = FALSE

EqInit ==
  /\ eqList1 \in EqLists /\ eqList2 \in EqLists
  /\ eqDict1 \in EqDicts /\ eqDict2 \in EqDicts
  /\ eqPc = "ready" /\ eqOut = FALSE

\* isEqual := equalArgsKwargs(list1, list2, dict1, dict2)
EqCompare ==
  /\ eqPc = "ready"
  /\ eqOut' = EqualArgsKwargs(eqList1, eqList2, eqDict1, eqDict2)
  /\ eqPc' = "returned"
  /\ UNCHANGED <<eqList1, eqList2, eqDict1, eqDict2>>
  /\ UNCHANGED notEq

NextEqual == EqCompare

\* ------------------------------------------------ connect, selectAuthMethod
\* The auth methods of the switch in connect, and one it has no case for.
AuthMethods == {"anonymous", "ticket", "wampcra", "cryptosign", "scram"}

\* A credential: empty or set.
Creds == {"", "williamsburg"}

\* As SelectAuthMethod, but a private key wins over the other credentials.
SelectAuthMethodKeyFirst(privateKey, ticket, secret) ==
  IF privateKey # "" THEN "cryptosign"
  ELSE IF ticket # "" /\ secret = "" THEN "ticket"
  ELSE IF secret # "" /\ ticket = "" THEN "wampcra"
  ELSE "anonymous"

\* selectAuthMethod
SelectAuthMethod(privateKey, ticket, secret) ==
  IF privateKey # "" /\ (ticket = "" /\ secret = "") THEN "cryptosign"
  ELSE IF ticket # "" /\ (privateKey = "" /\ secret = "") THEN "ticket"
  ELSE IF secret # "" /\ (privateKey = "" /\ ticket = "") THEN "wampcra"
  ELSE "anonymous"

\* As ConfigError, but anonymous auth tolerates a secret.
ConfigErrorSecretAllowed(auth, privateKey, ticket, secret) ==
  IF auth = "anonymous"
  THEN IF privateKey # ""
       THEN <<"private key not needed for anonymous auth">>
       ELSE IF ticket # "" THEN <<"ticket not needed for anonymous auth">>
       ELSE NoError
  ELSE IF auth = "ticket" /\ ticket = ""
  THEN <<"must provide ticket when authMethod is ticket">>
  ELSE IF auth = "wampcra" /\ secret = ""
  THEN <<"must provide secret when authMethod is wampcra">>
  ELSE IF auth = "cryptosign" /\ privateKey = ""
  THEN <<"must provide private key when authMethod is cryptosign">>
  ELSE NoError

\* The checks at the head of each case of the switch in connect: the error
\* returned, nil when the case goes on to its coreConnect* function.
ConfigError(auth, privateKey, ticket, secret) ==
  IF auth = "anonymous"
  THEN IF privateKey # ""
       THEN <<"private key not needed for anonymous auth">>
       ELSE IF ticket # "" THEN <<"ticket not needed for anonymous auth">>
       ELSE IF secret # "" THEN <<"secret not needed for anonymous auth">>
       ELSE NoError
  ELSE IF auth = "ticket" /\ ticket = ""
  THEN <<"must provide ticket when authMethod is ticket">>
  ELSE IF auth = "wampcra" /\ secret = ""
  THEN <<"must provide secret when authMethod is wampcra">>
  ELSE IF auth = "cryptosign" /\ privateKey = ""
  THEN <<"must provide private key when authMethod is cryptosign">>
  ELSE NoError

\* The coreConnect* function of each case; none for any other method.
CoreConnect(auth) ==
  CASE auth = "anonymous" -> "coreConnectAnonymous"
    [] auth = "ticket" -> "coreConnectTicket"
    [] auth = "wampcra" -> "coreConnectCRA"
    [] auth = "cryptosign" -> "coreConnectCryptoSign"
    [] OTHER -> ""

CnOff ==
  /\ cnAuth = "" /\ cnKey = "" /\ cnTicket = "" /\ cnSecret = ""
  /\ cnLogTime = FALSE /\ cnPc = "off" /\ cnCalls = <<>>
  /\ cnSession = NoSession /\ cnLog = <<>>
  /\ cnRet = [session |-> NoSession, err |-> NoError] /\ cnSel = ""

CnInit ==
  /\ cnAuth \in AuthMethods
  /\ cnKey \in Creds /\ cnTicket \in Creds /\ cnSecret \in Creds
  /\ cnLogTime \in BOOLEAN /\ cnPc = "ready" /\ cnCalls = <<>>
  /\ cnSession = NoSession /\ cnLog = <<>>
  /\ cnRet = [session |-> NoSession, err |-> NoError] /\ cnSel = ""

\* method := selectAuthMethod(privateKey, ticket, secret)
CnSelect ==
  /\ cnPc # "off" /\ cnSel = ""
  /\ cnSel' = SelectAuthMethod(cnKey, cnTicket, cnSecret)
  /\ UNCHANGED <<cnAuth, cnKey, cnTicket, cnSecret, cnLogTime, cnPc, cnCalls,
                 cnSession, cnLog, cnRet>>
  /\ UNCHANGED notCn

\* connect up to the call of a coreConnect* function: the switch and the
\* checks of its case.
CnBegin ==
  /\ cnPc = "ready"
  /\ LET e == ConfigError(cnAuth, cnKey, cnTicket, cnSecret) IN
       IF e # NoError
       THEN /\ cnRet' = [session |-> NoSession, err |-> e]
            /\ cnPc' = "returned"
            /\ UNCHANGED cnCalls
       ELSE IF CoreConnect(cnAuth) # ""
       THEN /\ cnCalls' = Append(cnCalls, CoreConnect(cnAuth))
            /\ cnPc' = "core"
            /\ UNCHANGED cnRet
       ELSE /\ cnPc' = "tail"
            /\ UNCHANGED <<cnCalls, cnRet>>
  /\ UNCHANGED <<cnAuth, cnKey, cnTicket, cnSecret, cnLogTime, cnSession,
                 cnLog, cnSel>>
  /\ UNCHANGED notCn

\* session, err = coreConnect*(clientInfo, keepalive); if err != nil
\* { return nil, err }
CnCore(ok) ==
  /\ cnPc = "core"
  /\ IF ok
     THEN /\ cnSession' = <<"session", 1>>
          /\ cnPc' = "tail"
          /\ UNCHANGED cnRet
     ELSE /\ cnRet' = [session |-> NoSession, err |-> <<"connect error", 1>>]
          /\ cnPc' = "returned"
          /\ UNCHANGED cnSession
  /\ UNCHANGED <<cnAuth, cnKey, cnTicket, cnSecret, cnLogTime, cnCalls,
                 cnLog, cnSel>>
  /\ UNCHANGED notCn

\* if logTime { log.Printf("session joined in %dms\n", ...) };
\* return session, err
CnReturn ==
  /\ cnPc = "tail"
  /\ cnLog' = IF cnLogTime THEN Append(cnLog, "session joined") ELSE cnLog
  /\ cnRet' = [session |-> cnSession, err |-> NoError]
  /\ cnPc' = "returned"
  /\ UNCHANGED <<cnAuth, cnKey, cnTicket, cnSecret, cnLogTime, cnCalls,
                 cnSession, cnSel>>
  /\ UNCHANGED notCn

NextConnect ==
  \/ CnSelect
  \/ CnBegin
  \/ \E ok \in BOOLEAN : CnCore(ok)
  \/ CnReturn

\* ---------------------------------------- listToWampList, dictToWampDict
\* A raw string is the sequence of its characters.  The strings converted:
\*   '123'          a single-quoted number
\*   "true"         a double-quoted boolean
\*   ':=f'          a quoted file reference
\*   '              a single quote alone
\*   "              a double quote alone
\*   (empty)        the empty string
\*   :=f            the marker and a path
\*   a:=f           the marker after other text
\*   {"a":":=f"}    a JSON object with the marker inside
\*   12             an integer
\*   1              an integer, a float and a boolean literal
\*   1.1            a float
\*   true           a boolean
\*   {"k":1}        a JSON object
\*   null           the JSON null
\*   [{"k":1}]      a JSON array of objects
\*   []             the empty JSON array
\*   [1]            a JSON array
\*   ok             none of the above
Raw ==
  {<<"'", "1", "2", "3", "'">>,
   <<"\"", "t", "r", "u", "e", "\"">>,
   <<"'", ":", "=", "f", "'">>,
   <<"'">>,
   <<"\"">>,
   <<>>,
   <<":", "=", "f">>,
   <<"a", ":", "=", "f">>,
   <<"{", "\"", "a", "\"", ":", "\"", ":", "=", "f", "\"", "}">>,
   <<"1", "2">>,
   <<"1">>,
   <<"1", ".", "1">>,
   <<"t", "r", "u", "e">>,
   <<"{", "\"", "k", "\"", ":", "1", "}">>,
   <<"n", "u", "l", "l">>,
   <<"[", "{", "\"", "k", "\"", ":", "1", "}", "]">>,
   <<"[", "]">>,
   <<"[", "1", "]">>,
   <<"o", "k">>}

\* strings.HasPrefix(value, q) && strings.HasSuffix(value, q), q one character
Quoted(value, q) ==
  /\ Len(value) > 0 /\ value[1] = q
  /\ Len(value) > 0 /\ value[Len(value)] = q

\* value[1:len(value)-1]: the characters between the first and the last;
\* the slice expression panics when its low bound exceeds its high bound.
SliceInner(value) ==
  IF 1 > Len(value) - 1 THEN <<"panic">> ELSE SubSeq(value, 2, Len(value) - 1)

\* getPathIfFile: strings.SplitN(arg, ":=", 2) cuts at the first ":=".
GetPathIfFile(arg) ==
  LET at == {i \in 1..(Len(arg) - 1) : arg[i] = ":" /\ arg[i + 1] = "="}
  IN IF at = {} THEN [path |-> <<>>, isFile |-> FALSE]
     ELSE LET i == CHOOSE j \in at : \A k \in at : j <= k
          IN [path |-> SubSeq(arg, i + 2, Len(arg)), isFile |-> TRUE]

Digits == {"0", "1", "2", "3", "4", "5", "6", "7", "8", "9"}

\* A string without its leading sign, if it has one.
Unsigned(value) ==
  IF Len(value) > 0 /\ value[1] \in {"+", "-"} THEN Tail(value) ELSE value

\* strconv.Atoi succeeds: an optional sign and decimal digits (no string of
\* Raw is out of the range of int).
AtoiOk(value) ==
  LET u == Unsigned(value)
  IN Len(u) > 0 /\ \A i \in 1..Len(u) : u[i] \in Digits

\* strconv.ParseFloat succeeds: an optional sign and decimal digits around at
\* most one point (no string of Raw has an exponent, is hexadecimal or
\* spells an infinity or a NaN).
ParseFloatOk(value) ==
  LET u == Unsigned(value)
  IN /\ \A i \in 1..Len(u) : u[i] \in Digits \cup {"."}
     /\ \E i \in 1..Len(u) : u[i] \in Digits
     /\ Cardinality({i \in 1..Len(u) : u[i] = "."}) <= 1

\* The strings strconv.ParseBool accepts.
BoolLiterals ==
  {<<"1">>,
   <<"t">>,
   <<"T">>,
   <<"T", "R", "U", "E">>,
   <<"t", "r", "u", "e">>,
   <<"T", "r", "u", "e">>,
   <<"0">>,
   <<"f">>,
   <<"F">>,
   <<"F", "A", "L", "S", "E">>,
   <<"f", "a", "l", "s", "e">>,
   <<"F", "a", "l", "s", "e">>}

ParseBoolOk(value) == value \in BoolLiterals

JsonNull == <<"n", "u", "l", "l">>

\* json.Unmarshal into a map succeeds: the document is an object or null
\* (the strings of Raw in braces or brackets are well-formed documents).
JsonObjectOk(value) ==
  \/ value = JsonNull
  \/ Len(value) >= 2 /\ value[1] = "{" /\ value[Len(value)] = "}"

\* json.Unmarshal into a slice succeeds: the document is an array or null.
JsonArrayOk(value) ==
  \/ value = JsonNull
  \/ Len(value) >= 2 /\ value[1] = "[" /\ value[Len(value)] = "]"

\* json.Unmarshal into a slice of maps succeeds: an array or null, every
\* element of the array an object.
JsonObjectArrayOk(value) ==
  /\ JsonArrayOk(value)
  /\ \/ value = JsonNull
     \/ Len(value) = 2
     \/ JsonObjectOk(SubSeq(value, 2, Len(value) - 1))

\* As Rule, but strconv.ParseBool is tried before strconv.Atoi.
RuleBoolFirst(value, checkFile) ==
  IF Quoted(value, "'") THEN "quoted"
  ELSE IF Quoted(value, "\"") THEN "quoted"
  ELSE IF checkFile /\ GetPathIfFile(value).isFile THEN "file"
  ELSE IF ParseBoolOk(value) THEN "boolean"
  ELSE IF AtoiOk(value) THEN "integer"
  ELSE IF ParseFloatOk(value) THEN "float"
  ELSE IF JsonObjectOk(value) THEN "object"
  ELSE IF JsonObjectArrayOk(value) THEN "objects"
  ELSE IF JsonArrayOk(value) THEN "array"
  ELSE "raw"

\* The branch the switch and the if-else chain in its default case take.
Rule(value, checkFile) ==
  IF Quoted(value, "'") THEN "quoted"
  ELSE IF Quoted(value, "\"") THEN "quoted"
  ELSE IF checkFile /\ GetPathIfFile(value).isFile THEN "file"
  ELSE IF AtoiOk(value) THEN "integer"
  ELSE IF ParseFloatOk(value) THEN "float"
  ELSE IF ParseBoolOk(value) THEN "boolean"
  ELSE IF JsonObjectOk(value) THEN "object"
  ELSE IF JsonObjectArrayOk(value) THEN "objects"
  ELSE IF JsonArrayOk(value) THEN "array"
  ELSE "raw"

\* The path read by the file branch.
FilePath(value) == GetPathIfFile(value).path

\* os.ReadFile(filePath): the bytes of a readable file, else an error.
ReadFile(path, files) ==
  IF path \in files THEN [bytes |-> BytesVal(path), err |-> NoError]
  ELSE [bytes |-> BytesVal(<<>>), err |-> <<"open", path>>]

\* What one pass of the loop body does with value: it appends a typed value,
\* returns an error, or panics.
Convert(value, checkFile, files) ==
  LET rule == Rule(value, checkFile) IN
    CASE rule = "quoted" ->
           IF SliceInner(value) = <<"panic">>
           THEN [kind |-> "panic", value |-> StrVal(<<>>), err |-> NoError]
           ELSE [kind |-> "value", value |-> StrVal(SliceInner(value)),
                 err |-> NoError]
      [] rule = "file" ->
           IF ReadFile(FilePath(value), files).err # NoError
           THEN [kind |-> "error", value |-> StrVal(<<>>),
                 err |-> ReadFile(FilePath(value), files).err]
           ELSE [kind |-> "value",
                 value |-> ReadFile(FilePath(value), files).bytes,
                 err |-> NoError]
      [] rule = "integer" ->
           [kind |-> "value", value |-> IntVal(value), err |-> NoError]
      [] rule = "float" ->
           [kind |-> "value", value |-> FloatVal(value), err |-> NoError]
      [] rule = "boolean" ->
           [kind |-> "value", value |-> BoolVal(value), err |-> NoError]
      [] rule = "object" ->
           [kind |-> "value",
            value |-> <<"map[string]interface {}", value>>, err |-> NoError]
      [] rule = "objects" ->
           [kind |-> "value",
            value |-> <<"[]map[string]interface {}", value>>,
            err |-> NoError]
      [] rule = "array" ->
           [kind |-> "value", value |-> <<"[]interface {}", value>>,
            err |-> NoError]
      [] OTHER ->
           [kind |-> "value", value |-> StrVal(value), err |-> NoError]

\* The readable files are among these paths.
Paths == {<<"f">>}

\* The key of the i-th entry of kwargs.
DictKey(i) == <<"key", i>>

\* The inputs: up to MaxArgs strings for a list, up to MaxKeys for a dict.
CvInputs(kind) ==
  UNION {[1..n -> Raw] :
           n \in 0..(IF kind = "list" THEN MaxArgs ELSE MaxKeys)}

CvOff ==
  /\ cvKind = "none" /\ cvIn = <<>> /\ cvNil = FALSE /\ cvCheckFile = FALSE
  /\ cvFiles = {} /\ cvPc = "off" /\ cvDone = {} /\ cvOut = <<"nil">>
  /\ cvLog = <<>> /\ cvReads = <<>>
  /\ cvRet = [value |-> <<"nil">>, err |-> NoError]

\* The function is entered: "var arguments wamp.List" is the nil list,
\* "keywordArguments = make(map[string]interface{})" an empty dict.
CvInit ==
  /\ cvKind \in {"list", "dict"}
  /\ cvIn \in CvInputs(cvKind)
  /\ cvNil \in (IF cvIn = <<>> THEN BOOLEAN ELSE {FALSE})
  /\ cvCheckFile \in BOOLEAN
  /\ cvFiles \in SUBSET Paths
  /\ cvPc = "ready" /\ cvDone = {}
  /\ cvOut = (IF cvKind = "list" THEN NilList ELSE Dict({}))
  /\ cvLog = <<>> /\ cvReads = <<>>
  /\ cvRet = [value |-> <<"nil">>, err |-> NoError]

\* if args == nil { return wamp.List{}, nil }, in listToWampList only.
CvBegin ==
  /\ cvPc = "ready"
  /\ IF cvKind = "list" /\ cvNil
     THEN /\ cvRet' = [value |-> List(<<>>), err |-> NoError]
          /\ cvPc' = "returned"
     ELSE /\ cvPc' = "loop"
          /\ UNCHANGED cvRet
  /\ UNCHANGED <<cvKind, cvIn, cvNil, cvCheckFile, cvFiles, cvDone, cvOut,
                 cvLog, cvReads>>
  /\ UNCHANGED notCv

\* The entries the range loop may take next: the next position of a list,
\* any remaining key of a dict.
CvNext ==
  LET rest == (1..Len(cvIn)) \ cvDone
  IN IF cvKind = "list"
     THEN {i \in rest : \A j \in rest : i <= j}
     ELSE rest

\* arguments = append(arguments, v), keywordArguments[key] = v
Put(out, kind, i, v) ==
  IF kind = "list" THEN List(Append(Items(out), v))
  ELSE Dict(Pairs(out) \cup {<<DictKey(i), v>>})

\* As ReadFailure, but what was converted so far is returned with the error.
ReadFailurePartial(out, err) == [value |-> out, err |-> err]

\* return nil, err
ReadFailure(out, err) == [value |-> <<"nil">>, err |-> err]

\* One pass of the loop body, for the entry at i.
CvStep(i) ==
  /\ cvPc = "loop"
  /\ i \in CvNext
  /\ LET o == Convert(cvIn[i], cvCheckFile, cvFiles)
         rule == Rule(cvIn[i], cvCheckFile)
     IN /\ cvLog' = Append(cvLog, [i |-> i, rule |-> rule, kind |-> o.kind,
                                    value |-> o.value])
        /\ cvReads' = IF rule = "file"
                      THEN Append(cvReads, FilePath(cvIn[i])) ELSE cvReads
        /\ cvDone' = cvDone \cup {i}
        /\ CASE o.kind = "panic" ->
                  /\ cvPc' = "panicked"
                  /\ UNCHANGED <<cvOut, cvRet>>
             [] o.kind = "error" ->
                  /\ cvRet' = ReadFailure(cvOut, o.err)
                  /\ cvPc' = "returned"
                  /\ UNCHANGED cvOut
             [] OTHER ->
                  /\ cvOut' = Put(cvOut, cvKind, i, o.value)
                  /\ UNCHANGED <<cvPc, cvRet>>
  /\ UNCHANGED <<cvKind, cvIn, cvNil, cvCheckFile, cvFiles>>
  /\ UNCHANGED notCv

\* return arguments, nil; return keywordArguments, nil
CvReturn ==
  /\ cvPc = "loop"
  /\ CvNext = {}
  /\ cvRet' = [value |-> cvOut, err |-> NoError]
  /\ cvPc' = "returned"
  /\ UNCHANGED <<cvKind, cvIn, cvNil, cvCheckFile, cvFiles, cvDone, cvOut,
                 cvLog, cvReads>>
  /\ UNCHANGED notCv

NextConvert ==
  \/ CvBegin
  \/ \E i \in 1..Max(MaxArgs, MaxKeys) : CvStep(i)
  \/ CvReturn

\* ------------------------------------------- ArgsKWArgs, progressArgsKWArgs
\* A text is the sequence of its pieces: literal text, a line break, or the
\* JSON encoding of a value in one of the two layouts.
Lit(text) == <<"lit", text>>
Newline == <<"newline">>
Json(v, layout) == <<"json", layout, v>>

\* A float64 that encoding/json rejects.
NaN == FloatVal("NaN")

\* json.Marshal and json.MarshalIndent succeed on v.
Marshalable(v) ==
  IF v[1] = "map" THEN \A p \in v[2] : p[2] # NaN
  ELSE \A i \in 1..Len(Items(v)) : Items(v)[i] # NaN

MarshalError == <<"json: unsupported value: NaN">>

\* The lists and dicts formatted: nil, empty, the payload of the tests, and
\* one that cannot be encoded.
FmLists ==
  {NilList, List(<<>>), List(<<StrVal("test"), IntVal("1")>>),
   List(<<NaN>>)}
FmDicts ==
  {NilDict, Dict({}), Dict({<<"key", StrVal("value")>>}),
   Dict({<<"key", NaN>>})}

\* len of a list or a dict.
LenOf(v) == IF v[1] = "map" THEN Cardinality(v[2]) ELSE Len(Items(v))

\* As ArgsKWArgs, but the literal is written whenever args and kwArgs are
\* empty, whatever details is.
ArgsKWArgsLiteralAlways(args, kwArgs, details) ==
  IF details # NilDict /\ ~Marshalable(details)
  THEN [text |-> <<>>, err |-> MarshalError]
  ELSE IF LenOf(args) # 0 /\ ~Marshalable(args)
  THEN [text |-> <<>>, err |-> MarshalError]
  ELSE IF LenOf(kwArgs) # 0 /\ ~Marshalable(kwArgs)
  THEN [text |-> <<>>, err |-> MarshalError]
  ELSE [text |->
          (IF details # NilDict
           THEN <<Lit("details:"), Json(details, "indent"), Newline>>
           ELSE <<>>)
          \o (IF LenOf(args) # 0
              THEN <<Lit("args:"), Newline, Json(args, "indent")>>
              ELSE <<>>)
          \o (IF LenOf(kwArgs) # 0
              THEN <<Lit("kwargs:"), Newline, Json(kwArgs, "indent")>>
              ELSE <<>>)
          \o (IF LenOf(args) = 0 /\ LenOf(kwArgs) = 0
              THEN <<Lit("args: []"), Newline, Lit("kwargs: {}")>>
              ELSE <<>>),
        err |-> NoError]

\* ArgsKWArgs: the builder's content and a nil error, or "" and the error of
\* the first encoding that fails.
ArgsKWArgs(args, kwArgs, details) ==
  IF details # NilDict /\ ~Marshalable(details)
  THEN [text |-> <<>>, err |-> MarshalError]
  ELSE IF LenOf(args) # 0 /\ ~Marshalable(args)
  THEN [text |-> <<>>, err |-> MarshalError]
  ELSE IF LenOf(kwArgs) # 0 /\ ~Marshalable(kwArgs)
  THEN [text |-> <<>>, err |-> MarshalError]
  ELSE [text |->
          (IF details # NilDict
           THEN <<Lit("details:"), Json(details, "indent"), Newline>>
           ELSE <<>>)
          \o (IF LenOf(args) # 0
              THEN <<Lit("args:"), Newline, Json(args, "indent")>>
              ELSE <<>>)
          \o (IF LenOf(kwArgs) # 0
              THEN <<Lit("kwargs:"), Newline, Json(kwArgs, "indent")>>
              ELSE <<>>)
          \o (IF LenOf(args) = 0 /\ LenOf(kwArgs) = 0 /\ details = NilDict
              THEN <<Lit("args: []"), Newline, Lit("kwargs: {}")>>
              ELSE <<>>),
        err |-> NoError]

\* progressArgsKWArgs
ProgressArgsKWArgs(args, kwArgs) ==
  IF LenOf(args) # 0 /\ ~Marshalable(args)
  THEN [text |-> <<>>, err |-> MarshalError]
  ELSE IF LenOf(kwArgs) # 0 /\ ~Marshalable(kwArgs)
  THEN [text |-> <<>>, err |-> MarshalError]
  ELSE [text |->
          (IF LenOf(args) # 0
           THEN <<Lit("args: "), Json(args, "compact")>>
           ELSE <<>>)
          \o (IF LenOf(kwArgs) # 0
              THEN <<Lit("kwargs: "), Json(kwArgs, "compact")>>
              ELSE <<>>)
          \o (IF LenOf(args) = 0 /\ LenOf(kwArgs) = 0
              THEN <<Lit("args: [] kwargs: {}")>>
              ELSE <<>>),
        err |-> NoError]

FmOff ==
  /\ fmArgs = NilList /\ fmKwArgs = NilDict /\ fmDetails = NilDict
  /\ fmPc = "off" /\ fmOut = [text |-> <<>>, err |-> NoError]

FmInit ==
  /\ fmArgs \in FmLists /\ fmKwArgs \in FmDicts /\ fmDetails \in FmDicts
  /\ fmPc = "ready" /\ fmOut = [text |-> <<>>, err |-> NoError]

\* text, err := ArgsKWArgs(args, kwArgs, details)
FmFull ==
  /\ fmPc = "ready"
  /\ fmOut' = ArgsKWArgs(fmArgs, fmKwArgs, fmDetails)
  /\ fmPc' = "full"
  /\ UNCHANGED <<fmArgs, fmKwArgs, fmDetails>>
  /\ UNCHANGED notFm

\* text, err := progressArgsKWArgs(args, kwArgs)
FmProgress ==
  /\ fmPc = "ready"
  /\ fmOut' = ProgressArgsKWArgs(fmArgs, fmKwArgs)
  /\ fmPc' = "progress"
  /\ UNCHANGED <<fmArgs, fmKwArgs, fmDetails>>
  /\ UNCHANGED notFm

NextFormat ==
  \/ FmFull
  \/ FmProgress

\* ------------------------------------------------- rounds of a worker pool
\* The two runs.
Runs == {"sequential", "concurrent"}

\* The concurrency of a run.
RdConcurrency(run) == IF run = "sequential" THEN 1 ELSE rdConc

\* As RdPoolSize, but the pool has one worker whatever the concurrency.
RdPoolSizeOne(concurrency) == 1

\* workerpool.New(concurrency): the number of workers.
RdPoolSize(concurrency) == Max(concurrency, 1)

RdOff ==
  /\ rdUnits = 0 /\ rdConc = 0
  /\ rdLeft = [run \in Runs |-> 0] /\ rdRounds = [run \in Runs |-> 0]

\* Every unit has been submitted to the pool of its run.
RdInit ==
  /\ rdUnits \in 1..MaxUnits
  /\ rdConc \in 2..MaxPool
  /\ rdLeft = [run \in Runs |-> rdUnits]
  /\ rdRounds = [run \in Runs |-> 0]

\* One time step of a run: every worker of the pool that has a unit to run
\* runs it to its end.
RdRound(run) ==
  /\ rdLeft[run] > 0
  /\ rdLeft' = [rdLeft EXCEPT
                  ![run] = @ - Min(RdPoolSize(RdConcurrency(run)), @)]
  /\ rdRounds' = [rdRounds EXCEPT ![run] = @ + 1]
  /\ UNCHANGED <<rdUnits, rdConc>>
  /\ UNCHANGED notRd

NextRounds == \E run \in Runs : RdRound(run)

\* ------------------------------------- getErrorFromErrorChannel, stepwise
\* As DrClosedAtRange, but the cmd variant does not close the queue.
DrNeverCloses(variant, closed) == closed

\* Whether resC is closed when the range loop starts: the cmd variant has
\* closed it in its first statement, the core variant ranges over it as its
\* caller hands it over.
DrClosedAtRange(variant, closed) == IF variant = "cmd" THEN TRUE ELSE closed

DrOff ==
  /\ drVariant = "none" /\ drIn = <<>> /\ drQueue = <<>> /\ drClosed = FALSE
  /\ drPc = "off" /\ drErrs = <<>> /\ drOut = Unset

\* The pool has drained and the queue holds its entries.  The caller of the
\* cmd variant hands over the open queue; the caller of the core variant has
\* closed it after waiting for the pool.
DrInit ==
  /\ drVariant \in {"cmd", "core"}
  /\ drIn \in Queues /\ drQueue = drIn
  /\ drClosed = (drVariant = "core")
  /\ drPc = "enter" /\ drErrs = <<>> /\ drOut = Unset

\* close(resC) in the cmd variant; var errs []string in both.
DrEnter ==
  /\ drPc = "enter"
  /\ drClosed' = DrClosedAtRange(drVariant, drClosed)
  /\ drPc' = "range"
  /\ UNCHANGED <<drVariant, drIn, drQueue, drErrs, drOut>>
  /\ UNCHANGED notDr

\* One pass of "for err := range resC": the oldest entry is received and,
\* if it is not nil, its line is appended to errs.
DrReceive ==
  /\ drPc = "range"
  /\ drQueue # <<>>
  /\ drErrs' = drErrs \o CollectErrs(<<Head(drQueue)>>)
  /\ drQueue' = Tail(drQueue)
  /\ UNCHANGED <<drVariant, drIn, drClosed, drPc, drOut>>
  /\ UNCHANGED notDr

\* The range loop ends when resC is empty and closed (on an empty open
\* channel the receive blocks); the function returns the joined lines.
DrReturn ==
  /\ drPc = "range"
  /\ drQueue = <<>>
  /\ drClosed
  /\ drOut' = JoinErrs(drErrs)
  /\ drPc' = "returned"
  /\ UNCHANGED <<drVariant, drIn, drQueue, drClosed, drErrs>>
  /\ UNCHANGED notDr

NextDrain ==
  \/ DrEnter
  \/ DrReceive
  \/ DrReturn

\* ------------------------------------------------------------ specification
\* One component runs at a time.
InitSessions == GsInit /\ ExOff /\ AgOff /\ HOff /\ VOff /\ EtOff /\ EqOff /\ CnOff /\ CvOff /\ FmOff /\ RdOff /\ DrOff
InitExec == GsOff /\ ExInit /\ AgOff /\ HOff /\ VOff /\ EtOff /\ EqOff /\ CnOff /\ CvOff /\ FmOff /\ RdOff /\ DrOff
InitAgg == GsOff /\ ExOff /\ AgInit /\ HOff /\ VOff /\ EtOff /\ EqOff /\ CnOff /\ CvOff /\ FmOff /\ RdOff /\ DrOff
InitHandler == GsOff /\ ExOff /\ AgOff /\ HInit /\ VOff /\ EtOff /\ EqOff /\ CnOff /\ CvOff /\ FmOff /\ RdOff /\ DrOff
InitCommand == GsOff /\ ExOff /\ AgOff /\ HInitCmd /\ VOff /\ EtOff /\ EqOff /\ CnOff /\ CvOff /\ FmOff /\ RdOff /\ DrOff
InitValidate == GsOff /\ ExOff /\ AgOff /\ HOff /\ VInit /\ EtOff /\ EqOff /\ CnOff /\ CvOff /\ FmOff /\ RdOff /\ DrOff
InitTasks == GsOff /\ ExOff /\ AgOff /\ HOff /\ VOff /\ EtInit /\ EqOff /\ CnOff /\ CvOff /\ FmOff /\ RdOff /\ DrOff
InitEqual == GsOff /\ ExOff /\ AgOff /\ HOff /\ VOff /\ EtOff /\ EqInit /\ CnOff /\ CvOff /\ FmOff /\ RdOff /\ DrOff
InitConnect == GsOff /\ ExOff /\ AgOff /\ HOff /\ VOff /\ EtOff /\ EqOff /\ CnInit /\ CvOff /\ FmOff /\ RdOff /\ DrOff
InitConvert == GsOff /\ ExOff /\ AgOff /\ HOff /\ VOff /\ EtOff /\ EqOff /\ CnOff /\ CvInit /\ FmOff /\ RdOff /\ DrOff
InitFormat == GsOff /\ ExOff /\ AgOff /\ HOff /\ VOff /\ EtOff /\ EqOff /\ CnOff /\ CvOff /\ FmInit /\ RdOff /\ DrOff
InitRounds == GsOff /\ ExOff /\ AgOff /\ HOff /\ VOff /\ EtOff /\ EqOff /\ CnOff /\ CvOff /\ FmOff /\ RdInit /\ DrOff
InitDrain == GsOff /\ ExOff /\ AgOff /\ HOff /\ VOff /\ EtOff /\ EqOff /\ CnOff /\ CvOff /\ FmOff /\ RdOff /\ DrInit

\* getSessions alone.
SpecSessions == InitSessions /\ [][NextSessions]_vars

\* The operation executor alone.
SpecExec == InitExec /\ [][NextExec]_vars

\* The error aggregation alone.
SpecAgg == InitAgg /\ [][NextAgg]_vars

\* One registration and its handler alone.
SpecHandler == InitHandler /\ [][NextHandler]_vars

\* One registration with a shell command, called by one caller.
SpecCommand == InitCommand /\ [][NextHandler]_vars

\* The validate functions alone.
SpecValidate == InitValidate /\ [][NextValidate]_vars

\* One run of executeTasks.
SpecTasks == InitTasks /\ [][NextTasks]_vars

\* equalArgsKwargs alone.
SpecEqual == InitEqual /\ [][NextEqual]_vars

\* connect and selectAuthMethod alone.
SpecConnect == InitConnect /\ [][NextConnect]_vars

\* listToWampList and dictToWampDict alone.
SpecConvert == InitConvert /\ [][NextConvert]_vars

\* ArgsKWArgs and progressArgsKWArgs alone.
SpecFormat == InitFormat /\ [][NextFormat]_vars

\* The rounds of a worker pool alone.
SpecRounds == InitRounds /\ [][NextRounds]_vars

\* getErrorFromErrorChannel alone, receive by receive.
\* The one goroutine that runs it is never held back while it can step.
SpecDrain == InitDrain /\ [][NextDrain]_vars /\ WF_vars(NextDrain)

\* The two batch operations: getSessions or the executor.
InitBatch ==
  \/ InitSessions
  \/ InitExec

NextBatch ==
  \/ NextSessions
  \/ NextExec

SpecBatch == InitBatch /\ [][NextBatch]_vars

\* Any of the components.
Init ==
  \/ InitSessions
  \/ InitExec
  \/ InitAgg
  \/ InitHandler
  \/ InitCommand
  \/ InitValidate
  \/ InitTasks
  \/ InitEqual
  \/ InitConnect
  \/ InitConvert
  \/ InitFormat
  \/ InitRounds
  \/ InitDrain

Next ==
  \/ NextSessions
  \/ NextExec
  \/ NextAgg
  \/ NextHandler
  \/ NextValidate
  \/ NextTasks
  \/ NextEqual
  \/ NextConnect
  \/ NextConvert
  \/ NextFormat
  \/ NextRounds
  \/ NextDrain

Spec == Init /\ [][Next]_vars

\* ------------------------------------------------------------------ claims
GsInitialRet == [sessions |-> <<>>, err |-> NoError]

\* Attempts of the batch whose connect returned an error.
GsFailed == {i \in Attempts : gsTask[i] = "done" /\ gsLocal[i].e # NoError}

\* The sessions of a returned collection: its distinct non-nil entries.
SessionsIn(ss) == {ss[k] : k \in 1..Len(ss)} \ {NoSession}

\* C1: getSessions returns either no error and a collection of exactly
\* sessionCount sessions, or an error and no sessions, whatever the
\* concurrency and the interleaving of the workers; never fewer or more
\* than sessionCount sessions without an error.
C1_CountOrError ==
  gsPc = "returned" =>
    \/ /\ gsRet.err = NoError
       /\ Len(gsRet.sessions) = gsCount
       /\ Cardinality(SessionsIn(gsRet.sessions)) = gsCount
    \/ gsRet.err # NoError /\ gsRet.sessions = <<>>

\* C2: when at least one connection attempt of the batch failed, getSessions
\* returns a non-nil aggregate error with a line for each failed attempt, and
\* no sessions.
C2_FailureReported ==
  gsPc = "returned" /\ GsFailed # {} =>
    /\ gsRet.err # NoError
    /\ gsRet.sessions = <<>>
    /\ \A i \in GsFailed :
         \E k \in 2..Len(gsRet.err) : gsRet.err[k] = ErrLine(gsLocal[i].e)

\* Units whose operation succeeded, and units whose operation failed.
ExOk == {i \in Units : exTask[i] = "done" /\ exOut[i] = NoError}
ExFailedUnits == {i \in Units : exTask[i] = "done" /\ exOut[i] # NoError}

\* C3: once the executor has returned, exactly repeatCount operations have
\* been performed, and the counting handler has counted each successful one
\* (those still on their way to the subscriber included): with no error and
\* every delivery handled the counter equals repeatCount, whatever the
\* concurrency.
C3_ExactlyRepeat ==
  exPc = "returned" =>
    /\ \A i \in Units : exTask[i] = (IF i <= exRepeat THEN "done" ELSE "none")
    /\ iterator + exPending = Cardinality(ExOk)
    /\ (exRet = NoError /\ exPending = 0 => iterator = exRepeat)

C3_Witness ==
  /\ exPc = "returned" /\ exRepeat >= 2 /\ exConc >= 2
  /\ exRet = NoError /\ exPending = 0 /\ iterator = exRepeat

\* C4: an error on one repetition cancels nothing: at the return every
\* repetition has been attempted, the returned error is nil exactly when no
\* repetition failed, and otherwise it has one line for each failure.
C4_BestEffort ==
  exPc = "returned" =>
    /\ \A i \in 1..exRepeat : exTask[i] = "done"
    /\ (exRet = NoError <=> ExFailedUnits = {})
    /\ (exRet # NoError =>
          /\ Len(exRet) = 1 + Cardinality(ExFailedUnits)
          /\ \A i \in ExFailedUnits :
               \E k \in 2..Len(exRet) : exRet[k] = ErrLine(OpError(i)))

C4_Witness ==
  /\ exPc = "returned"
  /\ Cardinality(ExFailedUnits) >= 2
  /\ \E i, j \in Units : i < j /\ i \in ExFailedUnits /\ j \in ExOk

\* Units whose operation has started.
ExStarted == {i \in Units : exTask[i] \in {"running", "done"}}

\* C5: the delay is applied once: no operation starts, and the counter stays
\* 0, before the delay has elapsed; with repeat = 1 the counter is exactly 1
\* when the operation has completed; and after the delay a queued unit starts
\* as soon as a worker is free, without any further pause.
C5_DelayOnce ==
  /\ (now < exDelay => ExStarted = {} /\ iterator = 0)
  /\ (exPc = "returned" /\ exRepeat = 1 /\ exRet = NoError /\ exPending = 0
        => iterator = 1)
  /\ ((\E i \in Units : exTask[i] = "queued")
        /\ Cardinality(ExInFlight) < Max(exConc, 1)
        => ENABLED (\E i \in Units : ExStart(i)))

C5_Witness ==
  /\ exDelay > 0 /\ now = exDelay
  /\ exRepeat >= 2 /\ exPc = "returned" /\ iterator = exRepeat

\* C6: at most max(concurrency, 1) operations are in flight at any moment,
\* and with concurrency 0 or 1 an operation starts only after the one before
\* it has finished.
C6_BoundedInFlight ==
  /\ Cardinality(ExInFlight) <= Max(exConc, 1)
  /\ (exConc <= 1 =>
        \A i \in Units :
          i > 1 /\ i \in ExStarted => exTask[i - 1] = "done")

C6_Witness == exConc >= 2 /\ Cardinality(ExInFlight) = exConc

\* C7: the executor and getSessions report nothing while a submitted unit is
\* pending or running: they have returned only if every unit has finished,
\* and until then no result is set.
C7_ReturnAfterDrain ==
  /\ (gsPc = "returned" => \A i \in 1..gsCount : gsTask[i] = "done")
  /\ (gsPc \in {"submit", "stopwait"} => gsRet = GsInitialRet)
  /\ (exPc = "returned" => \A i \in 1..exRepeat : exTask[i] = "done")
  /\ (exPc \in {"delay", "submit", "stopwait"} => exRet = Unset)

C7_Witness ==
  /\ gsPc = "stopwait" /\ gsRet = GsInitialRet
  /\ \E i \in Attempts : gsTask[i] \in {"writeErr", "append", "send"}

\* Positions of the non-nil entries of a queue.
NonNil(q) == {i \in 1..Len(q) : q[i] # NoError}

\* C8: the aggregation returns nil exactly when every queued entry is nil;
\* otherwise its message is the header line followed by exactly one
\* "- <error>" line for each non-nil entry, in queue order.
C8_Aggregate ==
  agPc \in {"cmd", "core"} =>
    /\ (agOut = NoError <=> \A i \in 1..Len(agIn) : agIn[i] = NoError)
    /\ (agOut # NoError =>
          /\ agOut[1] = "got errors:"
          /\ Len(agOut) = 1 + Cardinality(NonNil(agIn))
          /\ \A i \in NonNil(agIn) :
               agOut[1 + Cardinality({j \in NonNil(agIn) : j <= i})]
                 = <<"- ", agIn[i]>>)

C8_Witness ==
  /\ agPc \in {"cmd", "core"} /\ Len(agIn) >= 3
  /\ agIn[1] # NoError /\ agIn[2] = NoError /\ agIn[3] # NoError
  /\ agIn[1] # agIn[3]
  /\ Len(agOut) = 3

\* C9: a handler built with maximum invocation count N >= 1 and invoked
\* sequentially issues its unregister during the N-th invocation only; once
\* the N-th invocation has returned the procedure is not registered, and an
\* unregister by the owner after that fails.
C9_UnregisterAtNth ==
  hPc = "on" /\ hHasMax /\ hN >= 1 /\ hCallers = 1 =>
    /\ \A n \in 1..Len(hUnregLog) : hUnregLog[n].inv = hN
    /\ (hInv[hN] = "done" => ~hRegistered /\ Len(hUnregLog) = 1)
    /\ \A n \in 1..Len(hOwnerLog) :
         hOwnerLog[n].done >= hN => hOwnerLog[n].res = "error"

\* Invocations dispatched to the handler whose arguments were formatted.
HCounted == {k \in Invs : hInv[k] # "none" /\ hResp[k] # InternalError}

\* The position of invocation k among the invocations that were formatted.
HRank(k) == Cardinality({j \in HCounted : j <= k})

\* C9, amended: a handler built with maximum invocation count N >= 1 and
\* invoked sequentially issues its unregister only during the N-th of the
\* invocations whose arguments it could format (an invocation it answers
\* with an internal error is not counted); once that invocation has returned
\* the procedure is not registered, and an unregister by the owner after
\* that fails.
C9_UnregisterAtNthFormatted ==
  hPc = "on" /\ hHasMax /\ hN >= 1 /\ hCallers = 1 =>
    /\ \A n \in 1..Len(hUnregLog) :
         /\ hUnregLog[n].inv \in HCounted
         /\ HRank(hUnregLog[n].inv) = hN
    /\ \A k \in HServed :
         HRank(k) = hN => ~hRegistered /\ Len(hUnregLog) = 1
    /\ \A n \in 1..Len(hOwnerLog) :
         hOwnerLog[n].served >= hN => hOwnerLog[n].res = "error"

C9_WitnessFormatted ==
  /\ hPc = "on" /\ hHasMax /\ hN = 2 /\ hCallers = 1
  /\ hResp[1] = InternalError
  /\ hInv[3] = "done" /\ hResp[3].Err = ""
  /\ Len(hUnregLog) = 1 /\ hUnregLog[1].inv = 3 /\ hUnregLog[1].res = "ok"
  /\ Len(hOwnerLog) = 1 /\ hOwnerLog[1].served = 2
  /\ hOwnerLog[1].res = "error"

\* C10: the handler closes the owning session only after it has issued the
\* unregister and the grace delay has then elapsed, never while remaining > 0
\* and never in the step of the unregister; once the session is closed no
\* further invocation is dispatched to the handler.
C10_GraceThenClose ==
  hPc = "on" =>
    /\ \A n \in 1..Len(hCloseLog) :
         /\ hCloseLog[n].unregistered >= 1
         /\ hCloseLog[n].waited >= 1
         /\ hCloseLog[n].remaining <= 0
    /\ (hSession = "closed" => ~ENABLED (\E k \in Invs : HBegin(k)))

\* The session.Close calls made on the session of the registration.
HCloses == Len(hCloseLog) + (IF hOwnerClosed THEN 1 ELSE 0)

\* C11: the session of a registration is closed at most once and is not
\* used (closed again, or asked to unregister) after it has been closed,
\* also when the handler has scheduled its deferred close and the owner
\* closes the session before or after the grace period.
C11_ClosedOnce ==
  hPc = "on" =>
    /\ HCloses <= 1
    /\ \A n \in 1..Len(hCloseLog) : hCloseLog[n].session = "open"
    /\ \A n \in 1..Len(hUnregLog) : hUnregLog[n].session = "open"
    /\ \A n \in 1..Len(hOwnerLog) : hOwnerLog[n].session = "open"

\* C12: when a command was given at registration, every invocation runs it
\* once and answers with exactly the command's standard output; when no
\* command was given, no command is run.
C12_CommandOutput ==
  hPc = "on" =>
    \A k \in HDone :
      IF hCommand # ""
      THEN /\ Len(hShell[k]) = 1
           /\ hResp[k].Err = ""
           /\ hResp[k].Args = <<hShell[k][1].out>>
      ELSE Len(hShell[k]) = 0

\* C12, amended: when a command was given at registration, every invocation
\* whose arguments can be formatted runs it once and answers with exactly
\* the command's standard output; an invocation whose arguments cannot be
\* formatted is answered with an internal error and runs no command; when
\* no command was given, no command is run.
C12_CommandOutputFormatted ==
  hPc = "on" =>
    \A k \in HDone :
      IF hResp[k] = InternalError
      THEN Len(hShell[k]) = 0
      ELSE IF hCommand # ""
           THEN /\ Len(hShell[k]) = 1
                /\ hResp[k].Err = ""
                /\ hResp[k].Args = <<hShell[k][1].out>>
           ELSE Len(hShell[k]) = 0 /\ hResp[k].Err = ""

C12_Witness ==
  /\ hPc = "on" /\ hCommand # ""
  /\ hInv[1] = "done" /\ hInv[2] = "done" /\ hInv[3] = "done"
  /\ hResp[1].Args = <<"out">> /\ hResp[1].Err = ""
  /\ hResp[2] = InternalError
  /\ hResp[3].Args = <<"">> /\ Len(hShell[3]) = 1

\* C13: when the command of a registration fails to execute, the failure
\* is only logged: the invocation is answered with the empty result, never
\* with an error, whatever the command wrote to its standard output.
C13_FailureGivesEmpty ==
  hPc = "on" =>
    \A k \in HDone :
      (Len(hShell[k]) > 0 /\ hShell[k][1].err # NoError) =>
        /\ hResp[k].Err = ""
        /\ hResp[k].Args \in {<<>>, <<"">>}

\* A field of a task, by its yaml name, is present: a non-empty string or a
\* non-nil payload.
Present(t, f) ==
  CASE f = "procedure" -> t.Procedure # ""
    [] f = "topic" -> t.Topic # ""
    [] f = "yield" -> t.Yield # NilArgs
    [] f = "invocation" -> t.Invocation # NilArgs
    [] f = "parameters" -> t.Parameters # NilArgs
    [] f = "result" -> t.Result # NilArgs
    [] f = "event" -> t.Event # NilArgs

\* The table of per-kind field legality: the required field of a kind.
TableRequired(kind) ==
  IF kind \in {"register", "call"} THEN "procedure" ELSE "topic"

\* The table of per-kind field legality: the forbidden fields of a kind.
TableForbidden(kind) ==
  CASE kind = "register" -> {"topic", "event", "result", "parameters"}
    [] kind = "call" -> {"topic", "event", "yield", "invocation"}
    [] kind = "subscribe" ->
         {"procedure", "result", "yield", "invocation", "parameters"}
    [] kind = "publish" ->
         {"procedure", "result", "yield", "invocation", "event"}

\* The forbidden fields of the kind that the task carries.
Offending(kind, t) == {f \in TableForbidden(kind) : Present(t, f)}

\* C14: for each kind the validate function accepts a task exactly when the
\* required field of the kind is non-empty and no forbidden field of the
\* kind is present, per the table; the fields the table does not list for
\* the kind never cause a rejection.
C14_FieldLegality ==
  vPc \in Kinds =>
    (vErr = NoError <=>
       Present(vTask, TableRequired(vPc)) /\ Offending(vPc, vTask) = {})

C14_Witness ==
  /\ vPc = "subscribe" /\ vErr = NoError
  /\ vTask.Topic # "" /\ vTask.Event # NilArgs

\* C15: when the required field is set and exactly one forbidden field is
\* present, the error names that field and the kind (a register task with a
\* topic gives exactly "topic is not required for register"); a task
\* without its required field is rejected whatever its other fields are.
C15_ErrorNamesField ==
  vPc \in Kinds =>
    /\ \A f \in TableForbidden(vPc) :
         Present(vTask, TableRequired(vPc)) /\ Offending(vPc, vTask) = {f} =>
           /\ vErr # NoError
           /\ Len(vErr) = 3 /\ vErr[1] = f /\ vErr[3] = vPc
           /\ (vPc = "register" /\ f = "topic" =>
                 vErr = <<"topic", " is not required for ", "register">>)
    /\ (~Present(vTask, TableRequired(vPc)) => vErr # NoError)

C15_Witness ==
  /\ vPc = "publish" /\ vTask.Topic # ""
  /\ Offending("publish", vTask) = {"event"}
  /\ vErr = <<"event", " is not required for ", "publish">>

\* The tasks of the list of no valid kind.
EtUnknown == {i \in 1..Len(etTasks) : etTasks[i].Type \notin Kinds}

\* The tasks of the list for which a session call was issued.
EtIssued == {etOps[n].task : n \in 1..Len(etOps)}

\* C16: a task whose kind is none of register, call, subscribe, publish (an
\* empty kind included) is rejected by executeTasks with an error that
\* names the four valid kinds, whatever its other fields are, and no
\* session call is made for it.
C16_UnknownKindRejected ==
  etPc # "off" =>
    \A i \in EtUnknown :
      /\ i \notin EtIssued
      /\ etI <= i
      /\ (etPc = "returned" => etRet # NoError)
      /\ (etPc = "returned" /\ etI = i =>
            /\ etRet[1] = etTasks[i].Type
            /\ {etRet[j] : j \in 3..Len(etRet)} =
                 {"register", "call", "subscribe", "publish"})

C16_Witness ==
  /\ etPc = "returned" /\ Len(etTasks) = 2 /\ etI = 2
  /\ etTasks[2].Type = "" /\ etTasks[2].Event # NilArgs
  /\ Len(etOps) = 1 /\ etOps[1].state = "acked"
  /\ etRet[1] = ""

\* A task is illegal: its kind is not valid, or its required field is empty
\* or one of its forbidden fields is present, per the table.
Illegal(t) ==
  \/ t.Type \notin Kinds
  \/ ~Present(t, TableRequired(t.Type))
  \/ Offending(t.Type, t) # {}

EtIllegal == {i \in 1..Len(etTasks) : Illegal(etTasks[i])}

\* The effects of the acknowledged register and subscribe calls are in
\* place.
EtEffectsKept ==
  \A n \in 1..Len(etOps) :
    etOps[n].state = "acked" =>
      /\ etOps[n].kind = "register" =>
           \E m \in 1..Len(etRegs) : etRegs[m].task = etOps[n].task
      /\ etOps[n].kind = "subscribe" =>
           \E m \in 1..Len(etSubs) : etSubs[m].task = etOps[n].task

\* C17: for a task list whose first illegal task is at position k,
\* executeTasks returns a non-nil error, makes no session call for task k
\* or for any later task, and leaves the effects of the tasks before k in
\* place.
C17_AbortOnFirstIllegal ==
  etPc # "off" /\ EtIllegal # {} =>
    LET k == CHOOSE i \in EtIllegal : \A j \in EtIllegal : i <= j
    IN /\ etI <= k
       /\ \A i \in EtIssued : i < k
       /\ (etPc = "returned" => etRet # NoError)
       /\ EtEffectsKept

C17_Witness ==
  /\ etPc = "returned" /\ Len(etTasks) = 2 /\ etI = 2
  /\ etTasks[1].Type = "register" /\ etTasks[2].Type = "call"
  /\ EtIllegal = {2}
  /\ Len(etOps) = 1 /\ etOps[1].state = "acked" /\ Len(etRegs) = 1
  /\ etRet = <<"yield", " is not required for ", "call">>

\* C18: executeTasks processes the tasks in list order: the session call of
\* a task is issued only when the calls of all tasks before it have been
\* acknowledged, and no two calls are in progress at the same time.
C18_StrictOrder ==
  etPc # "off" =>
    /\ \A n \in 1..Len(etOps) : etOps[n].task = n
    /\ \A n \in 1..(Len(etOps) - 1) : etOps[n].state = "acked"
    /\ Cardinality({n \in 1..Len(etOps) : etOps[n].state = "issued"}) <= 1
    /\ (etPc = "wait" <=>
          (Len(etOps) > 0 /\ etOps[Len(etOps)].state = "issued"))

C18_Witness ==
  /\ etPc = "wait" /\ Len(etOps) = 2
  /\ etOps[1].kind = "publish" /\ etOps[1].state = "acked"
  /\ etOps[2].kind = "call" /\ etOps[2].state = "issued"

\* What task i makes of the run, its payloads left aside: the error of its
\* check, the error of its session call, or nil.
EtOutcome(i) ==
  IF EtCheck(etTasks[i]) # NoError THEN EtCheck(etTasks[i])
  ELSE IF \E n \in 1..Len(etOps) :
            etOps[n].task = i /\ etOps[n].state = "failed"
       THEN SessionError(etTasks[i].Type)
  ELSE NoError

\* C19: a mismatch between a declared invocation, result or event and the
\* actual payload never halts the run and never changes what is returned:
\* executeTasks goes through the same tasks and returns the same value as
\* without the mismatch, and the invocation callback gives the same answer.
C19_MismatchNeverHalts ==
  /\ etPc = "returned" =>
       LET bad == {i \in 1..Len(etTasks) : i <= etI /\ EtOutcome(i) # NoError}
       IN IF bad = {}
          THEN /\ etRet = NoError
               /\ EtIssued = 1..Len(etTasks)
               /\ \A n \in 1..Len(etOps) : etOps[n].state = "acked"
          ELSE bad = {etI} /\ etRet = EtOutcome(etI)
  /\ \A n \in 1..Len(etInvs) :
       Mismatch(etInvs[n].invoke, etInvs[n].actual) =>
         etInvs[n].resp =
           (IF etInvs[n].yield # NilArgs THEN etInvs[n].yield
            ELSE EmptyPayload)

C19_Witness ==
  /\ etPc = "returned" /\ etRet = NoError /\ Len(etTasks) = 2
  /\ Len(etDiag) = 2
  /\ etDiag[1] = [task |-> 1, what |-> "invocation"]
  /\ etDiag[2] = [task |-> 2, what |-> "result"]
  /\ etOps[2].state = "acked"

\* C20: the callback installed for a register task answers every invocation
\* with exactly the yield the task declares (its args and kwargs), and with
\* the empty response when it declares none, whether or not an invocation
\* is declared and whether or not it matches.
C20_YieldIsResponse ==
  /\ \A m \in 1..Len(etRegs) :
       /\ etRegs[m].yield = etTasks[etRegs[m].task].Yield
       /\ etRegs[m].invoke = etTasks[etRegs[m].task].Invocation
  /\ \A n \in 1..Len(etInvs) :
       LET t == etTasks[etInvs[n].task]
       IN etInvs[n].resp = (IF t.Yield # NilArgs
                            THEN <<t.Yield[1], t.Yield[2]>>
                            ELSE <<<<"nil">>, <<"nil">>>>)

C20_Witness ==
  /\ Len(etInvs) = 1
  /\ etTasks[1].Yield = NilArgs /\ etTasks[1].Invocation = NilArgs
  /\ etInvs[1].actual = Hello /\ etInvs[1].resp = EmptyPayload
  /\ etPc = "returned" /\ etRet = NoError

\* The keys of a dict, and the element under a key that it holds.
Keys(d) == {p[1] : p \in Pairs(d)}
At(d, k) == (CHOOSE p \in Pairs(d) : p[1] = k)[2]

\* C21: equalArgsKwargs returns true exactly when the two lists have the
\* same length and pairwise equal elements, a nil list counting as one of
\* length 0, and the two dicts have the same keys with equal elements, a nil
\* dict counting as an empty one.
C21_EqualIffSameContent ==
  eqPc = "returned" =>
    (eqOut <=>
       /\ Len(Items(eqList1)) = Len(Items(eqList2))
       /\ \A i \in 1..Len(Items(eqList1)) :
            Items(eqList1)[i] = Items(eqList2)[i]
       /\ Keys(eqDict1) = Keys(eqDict2)
       /\ \A k \in Keys(eqDict1) : At(eqDict1, k) = At(eqDict2, k))

\* The sessions the connection attempts of this batch have opened.
GsOpened == {gsLocal[i].s : i \in Attempts} \ {NoSession}

\* C22: when getSessions returns an error, every session its attempts
\* opened is still open and no session is handed back to the caller.
C22_SurvivorsOpenNotReturned ==
  (gsPc = "returned" /\ gsRet.err # NoError) =>
    /\ gsOpen = GsOpened
    /\ gsRet.sessions = <<>>

\* getSessions has returned an error although an attempt opened a session.
C22_Witness ==
  /\ gsPc = "returned" /\ gsRet.err # NoError
  /\ gsOpen # {}
  /\ gsSessions # <<>>

\* How often v occurs in the sequence q.
Occurrences(q, v) == Cardinality({k \in 1..Len(q) : q[k] = v})

\* C30: once the pool of getSessions has drained, the collection holds the
\* session of each attempt exactly once and the queue holds the error of
\* each attempt exactly once, whatever the interleaving of the workers.
C30_OwnResults ==
  (gsPc = "stopwait" /\ GsDrained) =>
    \A i \in 1..gsCount :
      /\ Occurrences(gsSessions, gsLocal[i].s)
           = Cardinality({j \in 1..gsCount : gsLocal[j].s = gsLocal[i].s})
      /\ Occurrences(gsResC, gsLocal[i].e)
           = Cardinality({j \in 1..gsCount : gsLocal[j].e = gsLocal[i].e})

\* The credential an auth method needs, and whether the call is one of the
\* misconfigurations: anonymous with a credential set, or ticket, wampcra
\* or cryptosign without its own credential.
CnMisconfigured ==
  \/ cnAuth = "anonymous" /\ (cnKey # "" \/ cnTicket # "" \/ cnSecret # "")
  \/ cnAuth = "ticket" /\ cnTicket = ""
  \/ cnAuth = "wampcra" /\ cnSecret = ""
  \/ cnAuth = "cryptosign" /\ cnKey = ""

\* C23: a misconfigured connect never invokes a coreConnect* function and
\* returns an error and no session.
C23_ConfigErrorBeforeConnect ==
  CnMisconfigured =>
    /\ cnCalls = <<>>
    /\ cnPc \in {"ready", "returned"}
    /\ cnPc = "returned" => (cnRet.err # NoError /\ cnRet.session = NoSession)

\* connect has returned from a call of anonymous auth with only a secret set.
C23_Witness ==
  /\ cnPc = "returned" /\ cnAuth = "anonymous"
  /\ cnKey = "" /\ cnTicket = "" /\ cnSecret # ""
  /\ cnRet.err # NoError

\* C24: selectAuthMethod returns cryptosign, ticket or wampcra exactly when
\* the private key, the ticket or the secret is the only credential set,
\* and anonymous in every other case.
C24_SelectAuthMethod ==
  cnSel # "" =>
    /\ cnSel = "cryptosign" <=> (cnKey # "" /\ cnTicket = "" /\ cnSecret = "")
    /\ cnSel = "ticket" <=> (cnTicket # "" /\ cnKey = "" /\ cnSecret = "")
    /\ cnSel = "wampcra" <=> (cnSecret # "" /\ cnKey = "" /\ cnTicket = "")
    /\ cnSel = "anonymous" <=>
         Cardinality({x \in {<<1, cnKey>>, <<2, cnTicket>>, <<3, cnSecret>>} :
                        x[2] # ""}) # 1

\* selectAuthMethod has answered anonymous for two credentials set at once.
C24_Witness ==
  /\ cnSel = "anonymous" /\ cnKey # "" /\ cnTicket # "" /\ cnSecret = ""

\* The rules of the classification, in their order.
RuleOrder ==
  <<"quoted", "file", "integer", "float", "boolean", "object", "objects",
    "array", "raw">>

\* Whether a rule applies to a string, taken on its own.
Matches(rule, value, checkFile) ==
  CASE rule = "quoted" -> Quoted(value, "'") \/ Quoted(value, "\"")
    [] rule = "file" -> checkFile /\ GetPathIfFile(value).isFile
    [] rule = "integer" -> AtoiOk(value)
    [] rule = "float" -> ParseFloatOk(value)
    [] rule = "boolean" -> ParseBoolOk(value)
    [] rule = "object" -> JsonObjectOk(value)
    [] rule = "objects" -> JsonObjectArrayOk(value)
    [] rule = "array" -> JsonArrayOk(value)
    [] OTHER -> TRUE

\* The earliest rule of the order that applies.
FirstMatching(value, checkFile) ==
  RuleOrder[CHOOSE i \in 1..Len(RuleOrder) :
              /\ Matches(RuleOrder[i], value, checkFile)
              /\ \A j \in 1..(i - 1) : ~Matches(RuleOrder[j], value, checkFile)]

\* The type a rule gives the value it appends.
TypeOf(rule) ==
  CASE rule = "quoted" -> "string"
    [] rule = "file" -> "[]byte"
    [] rule = "integer" -> "int"
    [] rule = "float" -> "float64"
    [] rule = "boolean" -> "bool"
    [] rule = "object" -> "map[string]interface {}"
    [] rule = "objects" -> "[]map[string]interface {}"
    [] rule = "array" -> "[]interface {}"
    [] OTHER -> "string"

\* The value in the collection for the n-th entry taken is v.
Collected(n, v) ==
  IF cvKind = "list" THEN n <= Len(Items(cvOut)) /\ Items(cvOut)[n] = v
  ELSE <<DictKey(cvLog[n].i), v>> \in Pairs(cvOut)

\* C25: every string taken by listToWampList or dictToWampDict is handled by
\* the earliest rule of the fixed order that applies to it; the value put
\* into the collection has the type of that rule, and for a quoted literal
\* it is the string between the quotes.
C25_FirstMatchingRule ==
  \A n \in 1..Len(cvLog) :
    LET e == cvLog[n]
        value == cvIn[e.i]
    IN /\ e.rule = FirstMatching(value, cvCheckFile)
       /\ e.kind = "value" =>
            /\ e.value[1] = TypeOf(e.rule)
            /\ Collected(n, e.value)
            /\ e.rule = "quoted" =>
                 e.value = StrVal(SubSeq(value, 2, Len(value) - 1))

\* The string 1, an integer, a float and a boolean literal, has been
\* converted, after the quoted literal '123'.
C25_Witness ==
  /\ Len(cvLog) = 2
  /\ cvIn[cvLog[1].i] = <<"'", "1", "2", "3", "'">>
  /\ cvLog[1].value = StrVal(<<"1", "2", "3">>)
  /\ cvIn[cvLog[2].i] = <<"1">>
  /\ cvLog[2].value = IntVal(<<"1">>)

\* A string that begins with the file marker.
MarkerPrefixed(value) == Len(value) >= 2 /\ value[1] = ":" /\ value[2] = "="

\* C26: without file checking no file is read and a marker-prefixed string
\* is put into the collection as it is; with file checking a marker-prefixed
\* path is replaced by the bytes of its file, and when the file cannot be
\* read the conversion returns the error and no collection.
C26_FileMarker ==
  /\ ~cvCheckFile => cvReads = <<>>
  /\ \A n \in 1..Len(cvLog) :
       LET e == cvLog[n]
           value == cvIn[e.i]
           path == SubSeq(value, 3, Len(value))
       IN MarkerPrefixed(value) =>
            IF ~cvCheckFile
            THEN e.kind = "value" /\ e.value = StrVal(value)
                 /\ Collected(n, e.value)
            ELSE IF path \in cvFiles
            THEN /\ e.kind = "value" /\ e.value = BytesVal(path)
                 /\ Collected(n, e.value)
                 /\ \E k \in 1..Len(cvReads) : cvReads[k] = path
            ELSE /\ e.kind = "error"
                 /\ cvPc = "returned"
                 /\ cvRet.value = <<"nil">> /\ cvRet.err # NoError

\* listToWampList has returned the error of an unreadable file after it had
\* converted an earlier string.
C26_Witness ==
  /\ cvKind = "list" /\ cvCheckFile /\ cvPc = "returned"
  /\ cvRet.err # NoError
  /\ Items(cvOut) # <<>>
  /\ MarkerPrefixed(cvIn[cvLog[Len(cvLog)].i])

\* The positions in the formatted text at which a piece stands.
FmAt(piece) == {i \in 1..Len(fmOut.text) : fmOut.text[i] = piece}

\* The literal of ArgsKWArgs for nothing to show.
FmNothing == <<Lit("args: []"), Newline, Lit("kwargs: {}")>>

\* C27: the text ArgsKWArgs returns has a details section exactly when
\* details is non-nil, an args section exactly when args is non-empty and a
\* kwargs section exactly when kwArgs is non-empty, in this order; it is the
\* literal "args: []", line break, "kwargs: {}" exactly when args and kwArgs
\* are empty and details is nil.
C27_Sections ==
  (fmPc = "full" /\ fmOut.err = NoError) =>
    /\ FmAt(Lit("details:")) # {} <=> fmDetails # NilDict
    /\ FmAt(Lit("args:")) # {} <=> LenOf(fmArgs) # 0
    /\ FmAt(Lit("kwargs:")) # {} <=> LenOf(fmKwArgs) # 0
    /\ \A d \in FmAt(Lit("details:")) :
         \A a \in FmAt(Lit("args:")) \cup FmAt(Lit("kwargs:")) : d < a
    /\ \A a \in FmAt(Lit("args:")) : \A k \in FmAt(Lit("kwargs:")) : a < k
    /\ fmOut.text = FmNothing <=>
         (LenOf(fmArgs) = 0 /\ LenOf(fmKwArgs) = 0 /\ fmDetails = NilDict)
    /\ fmOut.text # FmNothing =>
         FmAt(Lit("args: []")) = {} /\ FmAt(Lit("kwargs: {}")) = {}

\* ArgsKWArgs has formatted details, args and kwArgs, all three of them set.
C27_Witness ==
  /\ fmPc = "full" /\ fmOut.err = NoError
  /\ fmDetails # NilDict /\ LenOf(fmArgs) # 0 /\ LenOf(fmKwArgs) # 0
  /\ Len(fmOut.text) = 9

\* C28: the text progressArgsKWArgs returns for non-empty args and kwArgs is
\* the args part, one space, and the kwargs part; for empty args and kwArgs
\* it is the literal "args: [] kwargs: {}".
C28_ProgressText ==
  (fmPc = "progress" /\ fmOut.err = NoError) =>
    /\ (LenOf(fmArgs) # 0 /\ LenOf(fmKwArgs) # 0) =>
         fmOut.text = <<Lit("args: "), Json(fmArgs, "compact"), Lit(" "),
                        Lit("kwargs: "), Json(fmKwArgs, "compact")>>
    /\ (LenOf(fmArgs) = 0 /\ LenOf(fmKwArgs) = 0) =>
         fmOut.text = <<Lit("args: [] kwargs: {}")>>

\* ceil(r / c)
CeilDiv(r, c) == (r + c - 1) \div c

\* Both runs have finished all their units.
RdFinished == \A run \in Runs : rdLeft[run] = 0

\* C29: a run of R units takes ceil(R / C) time steps at concurrency C, and
\* from two units on the run at concurrency 1 takes strictly more time steps
\* than the run of the same units at a concurrency above 1.
C29_SequentialSlower ==
  RdFinished =>
    /\ \A run \in Runs :
         rdRounds[run] = CeilDiv(rdUnits, RdConcurrency(run))
    /\ rdUnits >= 2 => rdRounds["sequential"] > rdRounds["concurrent"]

\* Both runs of five units have finished, the concurrent one at concurrency
\* two in three time steps.
C29_Witness ==
  /\ RdFinished /\ rdUnits = 5 /\ rdConc = 2
  /\ rdRounds["sequential"] = 5 /\ rdRounds["concurrent"] = 3

\* C31: the error queue of getSessions never holds more than sessionCount
\* entries; a worker that is about to send finds room in it and finds it
\* open; each closure that has run to its end has sent one entry, so the
\* drained pool leaves exactly sessionCount entries; and the queue is closed
\* only once every closure has run to its end.
C31_QueueSizedToCount ==
  /\ Len(gsResC) <= gsCount
  /\ \A i \in Attempts :
       gsTask[i] = "send" => (Len(gsResC) < GsCapacity /\ ~gsClosed)
  /\ gsPc \in {"submit", "stopwait"} =>
       Len(gsResC) = Cardinality({i \in Attempts : gsTask[i] = "done"})
  /\ (gsPc = "stopwait" /\ GsDrained) => Len(gsResC) = gsCount
  /\ gsClosed => (gsPc = "returned" /\ GsDrained /\ gsResC = <<>>)

\* The last of three closures is about to send into a queue that holds the
\* entries of the other two.
C31_Witness ==
  /\ gsCount = 3 /\ Len(gsResC) = 2
  /\ \E i \in Attempts : gsTask[i] = "send"

\* C32: when getSessions returns no error, every session it returns is a
\* non-nil session that a connection attempt of the batch has opened.
C32_ReturnedSessionsLive ==
  (gsPc = "returned" /\ gsRet.err = NoError) =>
    \A k \in 1..Len(gsRet.sessions) :
      /\ gsRet.sessions[k] # NoSession
      /\ gsRet.sessions[k] \in gsOpen

C34_UnregisteredAfterN ==
  hPc = "on" /\ hHasMax /\ hN >= 1 /\ Cardinality(HServed) >= hN =>
    /\ Len(hUnregLog) >= 1
    /\ ~hRegistered

\* The deferred closes the handler has scheduled: those still pending and
\* those that have fired.
HScheduled == Len(hTimers) + Len(hCloseLog)

\* C35: over every sequence and interleaving of invocations the handler
\* issues the unregister at most once and schedules the deferred close of
\* the session at most once.
C35_UnregisterOnce ==
  hPc = "on" =>
    /\ Len(hUnregLog) <= 1
    /\ HScheduled <= 1

\* C36: a handler with maximum invocation count N >= 1 returns its normal
\* response to at most N invocations in total; the invocation during which
\* the unregister is issued still receives its normal response.
C36_AtMostNServed ==
  hPc = "on" /\ hHasMax /\ hN >= 1 =>
    /\ Cardinality(HServed) <= hN
    /\ \A n \in 1..Len(hUnregLog) : hUnregLog[n].inv \in HServed

\* C37: a handler built with hasMaxInvokeCount = true and invokeCount <= 0
\* never unregisters the procedure and never closes the session, however many
\* invocations it serves: its counter only moves further below zero. The
\* same holds for a handler built with hasMaxInvokeCount = false, whose
\* counter is never written.
C37_NeverUnregisters ==
  hPc = "on" /\ (~hHasMax \/ hN <= 0) =>
    /\ hUnregLog = <<>>
    /\ hTimers = <<>>
    /\ hCloseLog = <<>>
    /\ hInvokeCount <= hN
    /\ (hHasMax /\ HServed # {} => hInvokeCount < hN)
    /\ (~hHasMax => hInvokeCount = hN)

C37_Witness ==
  /\ hPc = "on" /\ hHasMax /\ hN <= 0 /\ hCallers = MaxCallers
  /\ HServed = Invs
  /\ hInvokeCount < hN
  /\ hRegistered /\ hSession = "open"

\* The session calls of the run that returned an error.
EtFailed == {n \in 1..Len(etOps) : etOps[n].state = "failed"}

\* C38: when the session call of a legal task (register, call, subscribe or
\* publish) returns an error, executeTasks returns that error at once: it
\* issues no session call after the failed one, goes to no later task, and
\* for a failed call logs no comparison of the result.
C38_FailureReturned ==
  etPc # "off" =>
    \A n \in EtFailed :
      /\ n = Len(etOps)
      /\ EtCheck(etTasks[etOps[n].task]) = NoError
      /\ etPc = "returned"
      /\ etRet = SessionError(etOps[n].kind)
      /\ etRet # NoError
      /\ etI = etOps[n].task
      /\ \A d \in 1..Len(etDiag) :
           ~(etDiag[d].task = etOps[n].task /\ etDiag[d].what = "result")

C38_Witness ==
  /\ etPc = "returned" /\ Len(etTasks) = 2 /\ etI = 1
  /\ etTasks[1].Type = "call" /\ etTasks[1].Result # NilArgs
  /\ EtCheck(etTasks[2]) = NoError
  /\ Len(etOps) = 1 /\ etOps[1].state = "failed"
  /\ etRet = SessionError("call") /\ etDiag = <<>>

\* C39: for every input string, the empty string and a string of a single
\* quote character included, the classification of the argument completes
\* with a typed value or an error: the conversion never stops in a panic of
\* the slice that strips the quotes.
C39_ClassificationCompletes ==
  cvPc # "off" =>
    /\ cvPc # "panicked"
    /\ \A n \in 1..Len(cvLog) : cvLog[n].kind \in {"value", "error"}

====
